---- MODULE Spec2Model ----
(***************************************************************************)
(* mirra: one root session (src/src/root.rs, process_socket) and one node  *)
(* session (src/src/node.rs, process_node) over one TCP connection         *)
(* (src/src/socket.rs, Client), with the root's module directory, the      *)
(* node's file tree and the notify watcher of the root.                    *)
(*                                                                         *)
(* A path is a sequence of components; an absolute path starts with "/".   *)
(* File contents are sequences of bytes.  The connection is two FIFO       *)
(* queues of frames: a packet is one frame, the content bytes that follow  *)
(* a File packet are one "Bytes" frame which the reader consumes in        *)
(* partial reads.                                                          *)
(***************************************************************************)
EXTENDS Integers, Sequences, FiniteSets, TLC

\* ------------------------------------------------------------------ bounds
\* Number of steps the environment of the root takes (file mutations under
\* the module directory, Rescan events of the watcher).
MaxEnvSteps == 2

\* ------------------------------------------------------- program constants
\* Chunk buffer of expect_file / send_file / hash_file (0x1000).
BufSize == 4096
\* Seconds between two heartbeats.
HeartbeatSecs == 20

None == "none"

\* No path: the unbound module directory, no open target.
NoPath == <<>>

\* No file held open by sync_file.
NoFile == [path |-> <<>>, rel |-> <<>>, content |-> <<>>]

\* --------------------------------------------------------------- sequences
Min(a, b) == IF a <= b THEN a ELSE b

IsPrefix(p, q) == Len(p) <= Len(q) /\ SubSeq(q, 1, Len(p)) = p

Zeros(n) == [i \in 1..n |-> 0]

\* Vec::truncate: keep the first n elements, no effect when n >= len.
Truncate(buf, n) == SubSeq(buf, 1, Min(n, Len(buf)))

\* ------------------------------------------------------------------- paths
\* Path::parent
Parent(p) == SubSeq(p, 1, Len(p) - 1)

\* All proper ancestors of an absolute path, "/" included.
Ancestors(p) == { SubSeq(p, 1, i) : i \in 1..(Len(p) - 1) }

\* PathBuf::join: an absolute argument replaces the base.
PathJoin(base, rel) == IF rel # <<>> /\ rel[1] = "/" THEN rel ELSE base \o rel

\* What the operating system makes of a path when it is used: "." is dropped
\* and ".." steps to the parent ("/.." is "/").
RECURSIVE ResolveFrom(_, _)
ResolveFrom(done, rest) ==
    IF rest = <<>> THEN done
    ELSE LET c == Head(rest)
         IN  IF c = "." THEN ResolveFrom(done, Tail(rest))
             ELSE IF c = ".."
                  THEN ResolveFrom(IF Len(done) > 1 THEN Parent(done) ELSE done, Tail(rest))
                  ELSE ResolveFrom(Append(done, c), Tail(rest))

Resolve(p) == ResolveFrom(<<>>, p)

\* A path taken as configured, not canonicalized.
AsConfigured(p) == p

\* fs::canonicalize of an existing path without symlinks.
Canonicalize(p) == Resolve(p)

\* Path::strip_prefix
StripPrefix(base, p) == SubSeq(p, Len(base) + 1, Len(p))

\* ----------------------------------------------------------- configuration
\* config.shares and config.syncs of the root daemon: module name -> path.
Shares == ("m" :> <<"/", "r", ".">>)

Syncs == ("s" :> <<"/", "q">>)

\* sync.path of the node's RootSync.
Into == <<"/", "n">>

\* Modules the node may be configured to pull.
NodeModules == {"m", "s", "nope"}

\* Relative paths of files under a module directory.
PathA == <<"a">>

PathSubB == <<"sub", "b">>

PathMirraK == <<".mirra", "k">>

RelPaths == {PathA, PathSubB, PathMirraK}

Content1 == <<1, 2>>

Content2 == <<3>>

Contents == {Content1, Content2}

\* -------------------------------------------------------------- file trees
\* A tree of regular files is a function from absolute paths to contents.
EmptyTree == [p \in {} |-> <<>>]

PutFile(files, p, c) == [q \in DOMAIN files \cup {p} |-> IF q = p THEN c ELSE files[q]]

DelFile(files, p) == [q \in DOMAIN files \ {p} |-> files[q]]

\* Path::is_file / Path::is_dir on the root, whose directories are those that
\* hold a file.
IsFile(files, p) == p \in DOMAIN files

IsDir(files, p) == \E q \in DOMAIN files : IsPrefix(p, q) /\ Len(q) > Len(p)

\* A read_dir that returns the regular files of the directory only.
ChildrenFiles(files, dir) ==
    { q[Len(dir) + 1] : q \in { f \in DOMAIN files : IsPrefix(dir, f) /\ Len(f) = Len(dir) + 1 } }

\* Names of the entries of directory dir (read_dir).
Children(files, dir) ==
    { q[Len(dir) + 1] : q \in { f \in DOMAIN files : IsPrefix(dir, f) /\ Len(f) > Len(dir) } }

\* The files of `files` below dir, keyed by their path relative to dir.
Subtree(files, dir) ==
    [r \in { StripPrefix(dir, f) : f \in { g \in DOMAIN files : IsPrefix(dir, g) /\ Len(g) > Len(dir) } }
        |-> files[dir \o r]]

\* ------------------------------------------------------------------ hashing
\* blake3 of the content read from the cursor to EOF, taken as collision free.
hash_file(content) == <<"blake3", content>>

\* LocalKeys::sign
sign(hash) == <<"sig", hash>>

\* ----------------------------------------------------------------- packets
Packet(k) == [kind |-> k]

HandshakePkt(m) == [kind |-> "Handshake", module |-> m]

FileHeaderPkt(p, h, c) == [kind |-> "FileHeader", path |-> p, hash |-> h, cert |-> c]

RemovePkt(p) == [kind |-> "Remove", path |-> p]

RenamePkt(o, n) == [kind |-> "Rename", old |-> o, new |-> n]

\* A send_file that declares one byte more than it then writes.
FileFramesOver(content) ==
    <<[kind |-> "File", size |-> Len(content) + 1]>>
        \o (IF content = <<>> THEN <<>> ELSE <<[kind |-> "Bytes", data |-> content]>>)

\* Client::send_file: the File kind byte and the u64 size from the metadata,
\* then the content from the cursor (0 after hash_file) to EOF.
FileFrames(content) ==
    <<[kind |-> "File", size |-> Len(content)]>>
        \o (IF content = <<>> THEN <<>> ELSE <<[kind |-> "Bytes", data |-> content]>>)

\* ---------------------------------------------------------------- variables
VARIABLES
    rootPc,       \* where process_socket is blocked
    rootResult,   \* "running", or what process_socket returned
    rootDir,      \* dir: the canonicalized module directory, NoPath before
    syncKind,     \* "initial" / "rescan" inside process_full_sync, else None
    walkStack,    \* sync_dir recursion: one frame per open read_dir
    rootOpen,     \* the file sync_file holds open: [path, rel, content], or NoFile
    rootLocked,   \* the root holds the advisory lock on rootOpen
    watching,     \* the notify watcher is installed
    events,       \* rx: debounced events not yet received
    elapsed,      \* seconds since last_heartbeat, saturating
    rootFiles,    \* the root's file system
    envSteps,     \* environment steps left
    mirror,       \* the node session of this daemon that mirrors the served
                  \* module into its directory: where its receive_file is
                  \* ("off" when the module is no sync of this daemon) and
                  \* the content it has still to write
    r2n,          \* frames from root to node
    n2r,          \* frames from node to root
    nodePc,       \* where process_node is blocked
    nodeResult,   \* "running", or the error process_node returned
    nodeModule,   \* module of the node's sync entry
    nodePending,  \* error process_node returns once close() is done
    nodeRet,      \* caller of receive_file: "loop" or "sync"
    nodeTarget,   \* file expect_file writes into
    nodeSize,     \* expect_file: size
    nodeBuf,      \* expect_file: buf
    nodeFiles,    \* the node's file system: regular files
    nodeDirs,     \* the node's file system: directories
    nodeLooped,   \* history: process_node reached its event loop
    hsTrace,      \* history: per Handshake received, the replies the root sent
    xfer,         \* history: the per-file exchanges of the current full sync
    dirty,        \* history: the module directory changed during the full sync
    idle,         \* history: seconds since the root last received an event
    sinceHb,      \* history: seconds since the root last sent a Heartbeat, or
                  \*          since it entered its main loop
    listener,     \* root(): "accepting", or "failed" once accept returned an error
    sess,         \* per accepted connection: where its process_socket task is
    lockHolder,   \* the connection whose session holds the lock on the shared file
    stalled,      \* the connections whose peer has stopped replying
    logged,       \* the tasks whose error has been logged at warning
    nodeTask,     \* per configured sync: its process_node task
    nodeSup,      \* node(): index of the task it awaits; 0 once it returned an error
    web,          \* the web task
    mainPc,       \* main: "join" while it awaits root, web and node; then "exit"
    winput,       \* what the sending end of a TcpStream is given to write
    wire,         \* the bytes written to the stream and not yet read
    sendPc,       \* the sending end: "start", then "done"
    fpos,         \* the cursor of the File the sending end holds open
    digests,      \* what the calls of hash_file on that File returned, in order
    recvPc,       \* the reading end: "idle", "kind", "done", or "exit" after an error
    recvKind,     \* what read_packet_kind returned
    last          \* the last call of the reading end and what it returned

rootVars == <<rootPc, rootResult, rootDir, syncKind, walkStack, rootOpen, rootLocked,
              watching, elapsed>>

envVars == <<events, rootFiles, envSteps, mirror>>

nodeVars == <<nodePc, nodeResult, nodeModule, nodePending, nodeRet, nodeTarget,
              nodeSize, nodeBuf, nodeFiles, nodeDirs>>

histVars == <<nodeLooped, hsTrace, xfer, dirty, idle, sinceHb>>

\* The daemon: the listener, its session tasks and the supervisor.
daemonVars == <<listener, sess, lockHolder, stalled, logged, nodeTask, nodeSup, web,
                mainPc>>

\* One root session and one node session over one connection.
sessionVars == <<rootVars, envVars, r2n, n2r, nodeVars, histVars>>

\* One TcpStream with a Client writing packets and a Client reading them.
wireVars == <<winput, wire, sendPc, fpos, digests, recvPc, recvKind, last>>

vars == <<sessionVars, daemonVars, wireVars>>


\* ------------------------------------------------------------ initial state
\* Trees the root's module directories may hold when the node connects.
RootTrees ==
    { (<<"/", "r", "a">> :> Content1) @@ (<<"/", "r", "sub", "b">> :> Content2)
          @@ (<<"/", "q", "a">> :> Content2),
      (<<"/", "r", "a">> :> Content1) @@ (<<"/", "r", ".mirra", "k">> :> Content2)
          @@ (<<"/", "q", "a">> :> Content2) }

\* Trees the node's local path may hold before the session starts.
NodeTrees ==
    { EmptyTree,
      (<<"/", "n", "a">> :> Content1),
      (<<"/", "n", "a">> :> Content2) }

\* The directories that hold the files of a tree.
DirsOf(files) == UNION { Ancestors(f) : f \in DOMAIN files } \cup {<<"/">>}

NoXfer == [p \in {} |-> None]

\* The connections the listener accepts, and the modules of config.syncs in
\* the order node() spawns and awaits their tasks.
Conns == {"A", "B"}

SyncNames == <<"s", "t">>

\* The daemon right after main has spawned root, web and node: the listener
\* accepts, node() has spawned one process_node per sync and awaits the first.
InitDaemonVars ==
    /\ listener = "accepting"
    /\ sess = [c \in Conns |-> "none"]
    /\ lockHolder = None
    /\ stalled = {}
    /\ logged = {}
    /\ nodeTask = [i \in DOMAIN SyncNames |-> "running"]
    /\ nodeSup = 1
    /\ web = "serving"
    /\ mainPc = "join"

\* No call of the reading end yet.
NoCall == [op |-> None, type |-> None, before |-> <<>>, fields |-> <<>>, err |-> None]

\* A stream nothing is written to.
InitWireVars ==
    /\ winput = [how |-> None, type |-> None, code |-> 0, fields |-> <<>>]
    /\ wire = <<>>
    /\ sendPc = "done"
    /\ fpos = 0
    /\ digests = <<>>
    /\ recvPc = "exit"
    /\ recvKind = None
    /\ last = NoCall

InitRoot ==
    /\ rootPc = "hs_read"
    /\ rootResult = "running"
    /\ rootDir = NoPath
    /\ syncKind = None
    /\ walkStack = <<>>
    /\ rootOpen = NoFile
    /\ rootLocked = FALSE
    /\ watching = FALSE
    /\ elapsed = 0
    /\ events = <<>>
    /\ rootFiles \in RootTrees

InitNode ==
    /\ nodePc = "connect"
    /\ nodeResult = "running"
    /\ nodeModule \in NodeModules
    /\ nodePending = None
    /\ nodeRet = None
    /\ nodeTarget = NoPath
    /\ nodeSize = 0
    /\ nodeBuf = <<>>
    /\ nodeFiles \in NodeTrees
    /\ nodeDirs = DirsOf(nodeFiles)

InitHist ==
    /\ nodeLooped = FALSE
    /\ hsTrace = <<>>
    /\ xfer = NoXfer
    /\ dirty = FALSE
    /\ idle = 0
    /\ sinceHb = 0

Init ==
    /\ InitRoot
    /\ envSteps = MaxEnvSteps
    /\ mirror = [pc |-> "off", todo |-> <<>>]
    /\ InitNode
    /\ InitHist
    /\ r2n = <<>>
    /\ n2r = <<>>
    /\ InitDaemonVars
    /\ InitWireVars

\* ------------------------------------------------------------ root session
\* process_socket returns.  The socket is dropped with it.
RootExit(result) ==
    /\ rootPc' = "exit"
    /\ rootResult' = result

\* A sync_file that returns to the main loop from inside a full sync too.
RootReturnToLoop == "poll"

\* Where sync_file returns to: sync_dir inside a full sync, else the main loop.
RootReturn == IF syncKind # None THEN "walk" ELSE "poll"

\* A lookup that leaves out the modules this mirra syncs from elsewhere.
ModuleFoundInShares(module) == module \in DOMAIN Shares

\* Handshake lookup: shares first, then syncs.
ModuleFound(module) == module \in DOMAIN Shares \/ module \in DOMAIN Syncs

ModulePath(module) ==
    IF module \in DOMAIN Shares THEN Shares[module] ELSE Syncs[module]

\* The packets the handshake arm sends for a Handshake: Ok right after the
\* Handshake is read, then NotFound when the lookup misses.
HandshakeReplies(found) ==
    IF found THEN <<Packet("Ok")>> ELSE <<Packet("Ok"), Packet("NotFound")>>

KindsOf(pkts) == [i \in 1..Len(pkts) |-> pkts[i].kind]

\* The handshake loop of process_socket, one iteration, and on a hit the
\* start of process_full_sync up to its expect::<Ok>.
RootHandshake ==
    /\ rootPc = "hs_read"
    /\ n2r # <<>>
    /\ n2r' = Tail(n2r)
    /\ LET first == Head(n2r)
       IN  IF first.kind = "Handshake"
           THEN LET found == ModuleFound(first.module)
                    sent == HandshakeReplies(found)
                IN  /\ hsTrace' = Append(hsTrace, [module |-> first.module,
                                                   replies |-> KindsOf(sent)])
                    /\ IF found
                       THEN /\ rootDir' = Canonicalize(ModulePath(first.module))
                            /\ r2n' = r2n \o sent \o <<Packet("BeginSync")>>
                            /\ rootPc' = "begin_wait"
                            /\ syncKind' = "initial"
                       ELSE /\ r2n' = r2n \o sent
                            /\ UNCHANGED <<rootDir, rootPc, syncKind>>
                    /\ UNCHANGED rootResult
           ELSE IF first.kind = "Close"
           THEN /\ r2n' = Append(r2n, Packet("Close"))
                /\ RootExit("Ok")
                /\ UNCHANGED <<rootDir, syncKind, hsTrace>>
           ELSE /\ RootExit("InvalidData")
                /\ UNCHANGED <<rootDir, syncKind, hsTrace, r2n>>
    /\ UNCHANGED <<walkStack, rootOpen, rootLocked, watching, elapsed, envVars,
                   nodeVars, nodeLooped, xfer, dirty, idle, sinceHb>>
    /\ UNCHANGED <<daemonVars, wireVars>>

\* A sync_dir that returns no entry of the directory it has opened.
FrameDone(dir) == [dir |-> dir, snap |-> {}, seen |-> Children(rootFiles, dir)]

\* read_dir(dir): a new frame of sync_dir.
Frame(dir) == [dir |-> dir, snap |-> Children(rootFiles, dir), seen |-> {}]

\* process_full_sync: expect::<Ok> after BeginSync, then sync_dir opens the
\* module directory.
RootBeginAck ==
    /\ rootPc = "begin_wait"
    /\ n2r # <<>>
    /\ n2r' = Tail(n2r)
    /\ IF Head(n2r).kind = "Ok"
       THEN /\ walkStack' = <<Frame(rootDir)>>
            /\ rootPc' = "walk"
            /\ UNCHANGED rootResult
       ELSE /\ RootExit("InvalidData")
            /\ UNCHANGED walkStack
    /\ UNCHANGED <<rootDir, syncKind, rootOpen, rootLocked, watching, elapsed,
                   envVars, r2n, nodeVars, histVars>>
    /\ UNCHANGED <<daemonVars, wireVars>>

\* History of the per-file exchanges of a full sync.
XferStart(rel, content) ==
    IF syncKind = None THEN xfer
    ELSE [q \in DOMAIN xfer \cup {rel} |->
            IF q = rel
            THEN [content |-> content,
                  hdrs |-> (IF rel \in DOMAIN xfer THEN xfer[rel].hdrs ELSE 0) + 1,
                  files |-> IF rel \in DOMAIN xfer THEN xfer[rel].files ELSE 0,
                  reply |-> None,
                  same |-> FALSE]
            ELSE xfer[q]]

\* sync_file up to its read_packet_kind: open, lock, hash, send the header.
SyncFile(path) ==
    IF ~IsFile(rootFiles, path)
    THEN /\ RootExit("Io")
         /\ UNCHANGED <<rootOpen, rootLocked, r2n, xfer>>
    ELSE LET relative_path == StripPrefix(rootDir, path)
             hash == hash_file(rootFiles[path])
         IN  /\ rootOpen' = [path |-> path, rel |-> relative_path, content |-> rootFiles[path]]
             /\ rootLocked' = TRUE
             /\ r2n' = Append(r2n, FileHeaderPkt(relative_path, hash, sign(hash)))
             /\ xfer' = XferStart(relative_path, rootFiles[path])
             /\ rootPc' = "fh_wait"
             /\ UNCHANGED rootResult

\* sync_dir: next_entry returns an entry.
RootWalkEntry ==
    /\ rootPc = "walk"
    /\ LET n == Len(walkStack)
           top == walkStack[n]
       IN  \E e \in Children(rootFiles, top.dir) \ top.seen :
              LET p == Append(top.dir, e)
                  marked == [walkStack EXCEPT ![n].seen = @ \cup {e}]
              IN  IF IsFile(rootFiles, p)
                  THEN /\ SyncFile(p)
                       /\ walkStack' = marked
                  ELSE /\ walkStack' = Append(marked, Frame(p))
                       /\ UNCHANGED <<rootPc, rootResult, rootOpen, rootLocked, r2n, xfer>>
    /\ UNCHANGED <<rootDir, syncKind, watching, elapsed, envVars, n2r, nodeVars,
                   nodeLooped, hsTrace, idle, sinceHb, dirty>>
    /\ UNCHANGED <<daemonVars, wireVars>>

\* sync_dir: next_entry returns None.  Every entry that was there when the
\* directory was opened and still is has been returned; an entry added since
\* may or may not have been.  Leaving the module directory itself, the full
\* sync sends EndSync.
RootWalkEnd ==
    /\ rootPc = "walk"
    /\ LET n == Len(walkStack)
           top == walkStack[n]
       IN  /\ (top.snap \cap Children(rootFiles, top.dir)) \subseteq top.seen
           /\ walkStack' = SubSeq(walkStack, 1, n - 1)
           /\ IF n = 1
              THEN /\ r2n' = Append(r2n, Packet("EndSync"))
                   /\ rootPc' = "end_wait"
              ELSE UNCHANGED <<r2n, rootPc>>
    /\ UNCHANGED <<rootResult, rootDir, syncKind, rootOpen, rootLocked, watching,
                   elapsed, envVars, n2r, nodeVars, histVars>>
    /\ UNCHANGED <<daemonVars, wireVars>>

\* A sync_file that sends the content after Skip as it does after Ok.
SyncFileSendsOnSkip(next) ==
    IF next \in {"Ok", "Skip"} THEN "send"
    ELSE IF next = "Close" THEN "return"
    ELSE "invalid"

\* What sync_file does with the kind that answers its FileHeader.
SyncFileOnReply(next) ==
    IF next = "Ok" THEN "send"
    ELSE IF next \in {"Skip", "Close"} THEN "return"
    ELSE "invalid"

\* A sync_file that returns after send_file without waiting for Ok.
AfterSendFileNoWait == RootReturn

\* After send_file and unlock, sync_file waits for Ok.
AfterSendFile == "file_wait"

XferFile(rel) ==
    IF syncKind = None \/ rel \notin DOMAIN xfer THEN xfer
    ELSE [xfer EXCEPT ![rel].files = @ + 1]

\* A sync_file whose File outlives its return after Skip or Close.
HeldAfterReturn(todo) == todo = "return"

\* Whether sync_file still holds the lock once it has dealt with the reply to
\* its FileHeader: after send_file it calls unlock, and where it returns
\* (Skip, Close, an error) its File is dropped, which closes the only open
\* file that holds the lock.
HeldAfter(todo) == FALSE

\* sync_file: the kind that answers the FileHeader.
RootHeaderReply ==
    /\ rootPc = "fh_wait"
    /\ n2r # <<>>
    /\ n2r' = Tail(n2r)
    /\ LET todo == SyncFileOnReply(Head(n2r).kind)
       IN  /\ IF todo = "send"
              THEN /\ r2n' = r2n \o FileFrames(rootOpen.content)
                   /\ xfer' = XferFile(rootOpen.rel)
                   /\ rootPc' = AfterSendFile
                   /\ UNCHANGED rootResult
              ELSE IF todo = "return"
              THEN /\ rootPc' = RootReturn
                   /\ UNCHANGED <<r2n, xfer, rootResult>>
              ELSE /\ RootExit("InvalidData")
                   /\ UNCHANGED <<r2n, xfer>>
           /\ rootOpen' = NoFile
           /\ rootLocked' = HeldAfter(todo)
    /\ UNCHANGED <<rootDir, syncKind, walkStack, watching, elapsed, envVars,
                   nodeVars, nodeLooped, hsTrace, idle, sinceHb, dirty>>
    /\ UNCHANGED <<daemonVars, wireVars>>

\* sync_file: expect::<Ok> after the File.
RootFileAck ==
    /\ rootPc = "file_wait"
    /\ n2r # <<>>
    /\ n2r' = Tail(n2r)
    /\ IF Head(n2r).kind = "Ok"
       THEN rootPc' = RootReturn /\ UNCHANGED rootResult
       ELSE RootExit("InvalidData")
    /\ UNCHANGED <<rootDir, syncKind, walkStack, rootOpen, rootLocked, watching,
                   elapsed, envVars, r2n, nodeVars, histVars>>
    /\ UNCHANGED <<daemonVars, wireVars>>

\* process_full_sync: expect::<Ok> after EndSync.  After the initial full sync
\* process_socket installs the watcher and starts the heartbeat timer.
RootEndAck ==
    /\ rootPc = "end_wait"
    /\ n2r # <<>>
    /\ n2r' = Tail(n2r)
    /\ IF Head(n2r).kind = "Ok"
       THEN /\ rootPc' = "poll"
            /\ syncKind' = None
            /\ IF syncKind = "initial"
               THEN watching' = TRUE /\ elapsed' = 0 /\ sinceHb' = 0
               ELSE UNCHANGED <<watching, elapsed, sinceHb>>
            /\ UNCHANGED rootResult
       ELSE /\ RootExit("InvalidData")
            /\ UNCHANGED <<syncKind, watching, elapsed, sinceHb>>
    /\ UNCHANGED <<rootDir, walkStack, rootOpen, rootLocked, envVars, r2n,
                   nodeVars, nodeLooped, hsTrace, xfer, dirty, idle>>
    /\ UNCHANGED <<daemonVars, wireVars>>


\* The main loop of process_socket: try_recv returned an event.
RootPollEvent ==
    /\ rootPc = "poll"
    /\ events # <<>>
    /\ events' = Tail(events)
    /\ LET event == Head(events)
       IN  IF event.kind \in {"Create", "Write"}
           THEN /\ SyncFile(event.path)
                /\ UNCHANGED <<syncKind, dirty>>
           ELSE IF event.kind = "Remove"
           THEN /\ r2n' = Append(r2n, RemovePkt(StripPrefix(rootDir, event.path)))
                /\ rootPc' = "ack_wait"
                /\ UNCHANGED <<rootResult, rootOpen, rootLocked, xfer, syncKind, dirty>>
           ELSE IF event.kind = "Rename"
           THEN /\ r2n' = Append(r2n, RenamePkt(StripPrefix(rootDir, event.old),
                                                StripPrefix(rootDir, event.new)))
                /\ rootPc' = "ack_wait"
                /\ UNCHANGED <<rootResult, rootOpen, rootLocked, xfer, syncKind, dirty>>
           ELSE \* Rescan: process_full_sync up to its expect::<Ok>
                /\ r2n' = Append(r2n, Packet("BeginSync"))
                /\ rootPc' = "begin_wait"
                /\ syncKind' = "rescan"
                /\ xfer' = NoXfer
                /\ dirty' = FALSE
                /\ UNCHANGED <<rootResult, rootOpen, rootLocked>>
    /\ idle' = 0
    /\ UNCHANGED <<sinceHb, mirror>>
    /\ UNCHANGED <<rootDir, walkStack, watching, elapsed, rootFiles, envSteps, n2r,
                   nodeVars, nodeLooped, hsTrace>>
    /\ UNCHANGED <<daemonVars, wireVars>>

\* A heartbeat that is due once 20 s have passed, not only after more.
HeartbeatDueAt(since) == since >= HeartbeatSecs

\* A heartbeat that is due one second later.
HeartbeatDueLate(since) == since > HeartbeatSecs + 1

\* The heartbeat is due: more than 20 s since last_heartbeat.
HeartbeatDue(since) == since > HeartbeatSecs

\* The main loop: try_recv returned Empty and the heartbeat is due.
RootHeartbeat ==
    /\ rootPc = "poll"
    /\ events = <<>>
    /\ HeartbeatDue(elapsed)
    /\ elapsed' = 0
    /\ r2n' = Append(r2n, Packet("Heartbeat"))
    /\ sinceHb' = 0
    /\ rootPc' = "hb_wait"
    /\ UNCHANGED <<rootResult, rootDir, syncKind, walkStack, rootOpen, rootLocked,
                   watching, envVars, n2r, nodeVars, nodeLooped, hsTrace, xfer,
                   dirty, idle>>
    /\ UNCHANGED <<daemonVars, wireVars>>

\* The main loop: the kind that answers the Heartbeat.
RootHeartbeatReply ==
    /\ rootPc = "hb_wait"
    /\ n2r # <<>>
    /\ n2r' = Tail(n2r)
    /\ LET next == Head(n2r).kind
       IN  IF next = "Ok"
           THEN rootPc' = "poll" /\ UNCHANGED <<rootResult, r2n>>
           ELSE IF next = "Close"
           THEN r2n' = Append(r2n, Packet("Close")) /\ RootExit("Ok")
           ELSE RootExit("InvalidData") /\ UNCHANGED r2n
    /\ UNCHANGED <<rootDir, syncKind, walkStack, rootOpen, rootLocked, watching,
                   elapsed, envVars, nodeVars, histVars>>
    /\ UNCHANGED <<daemonVars, wireVars>>

\* The main loop: expect::<Ok> after Remove or Rename.
RootAck ==
    /\ rootPc = "ack_wait"
    /\ n2r # <<>>
    /\ n2r' = Tail(n2r)
    /\ IF Head(n2r).kind = "Ok"
       THEN rootPc' = "poll" /\ UNCHANGED rootResult
       ELSE RootExit("InvalidData")
    /\ UNCHANGED <<rootDir, syncKind, walkStack, rootOpen, rootLocked, watching,
                   elapsed, envVars, r2n, nodeVars, histVars>>
    /\ UNCHANGED <<daemonVars, wireVars>>

\* A read of the root finds the connection closed by the node: read_u8 fails
\* with UnexpectedEof.
RootPeerClosed ==
    /\ rootPc \in {"hs_read", "begin_wait", "fh_wait", "file_wait", "end_wait",
                   "hb_wait", "ack_wait"}
    /\ n2r = <<>>
    /\ nodePc = "exit"
    /\ RootExit("Io")
    /\ rootOpen' = NoFile
    /\ rootLocked' = FALSE
    /\ UNCHANGED <<rootDir, syncKind, walkStack, watching, elapsed, envVars, r2n,
                   n2r, nodeVars, histVars>>
    /\ UNCHANGED <<daemonVars, wireVars>>

\* ------------------------------------------------- the root's environment
\* Some process writes content c to the file at rel of the module directory,
\* in place when the file exists.  It takes no lock.
FsWrite(rel, c) ==
    /\ rootResult = "running"
    /\ rootDir # NoPath
    /\ envSteps > 0
    /\ LET p == rootDir \o rel
       IN  /\ ~(IsFile(rootFiles, p) /\ rootFiles[p] = c)
           /\ ~IsDir(rootFiles, p)
           /\ rootFiles' = PutFile(rootFiles, p, c)
           /\ rootOpen' = IF rootOpen.path = p
                          THEN [rootOpen EXCEPT !.content = c]
                          ELSE rootOpen
           /\ events' = IF watching
                        THEN Append(events, [kind |-> IF IsFile(rootFiles, p)
                                                      THEN "Write" ELSE "Create",
                                             path |-> p])
                        ELSE events
    /\ envSteps' = envSteps - 1
    /\ dirty' = (dirty \/ syncKind # None)
    /\ UNCHANGED mirror
    /\ UNCHANGED <<rootPc, rootResult, rootDir, syncKind, walkStack, rootLocked,
                   watching, elapsed, r2n, n2r, nodeVars, nodeLooped, hsTrace, idle, sinceHb, xfer>>
    /\ UNCHANGED <<daemonVars, wireVars>>

\* Some process removes the file at rel.  An open handle keeps the content.
FsRemove(rel) ==
    /\ rootResult = "running"
    /\ rootDir # NoPath
    /\ envSteps > 0
    /\ LET p == rootDir \o rel
       IN  /\ IsFile(rootFiles, p)
           /\ rootFiles' = DelFile(rootFiles, p)
           /\ events' = IF watching
                        THEN Append(events, [kind |-> "Remove", path |-> p])
                        ELSE events
    /\ envSteps' = envSteps - 1
    /\ dirty' = (dirty \/ syncKind # None)
    /\ UNCHANGED mirror
    /\ UNCHANGED <<rootPc, rootResult, rootDir, syncKind, walkStack, rootOpen,
                   rootLocked, watching, elapsed, r2n, n2r, nodeVars, nodeLooped,
                   hsTrace, idle, sinceHb, xfer>>
    /\ UNCHANGED <<daemonVars, wireVars>>

\* Some process renames the file at old to new, replacing a file there.
FsRename(old, new) ==
    /\ rootResult = "running"
    /\ rootDir # NoPath
    /\ envSteps > 0
    /\ old # new
    /\ LET o == rootDir \o old
           n == rootDir \o new
       IN  /\ IsFile(rootFiles, o)
           /\ ~IsDir(rootFiles, n)
           /\ rootFiles' = PutFile(DelFile(rootFiles, o), n, rootFiles[o])
           /\ rootOpen' = IF rootOpen.path = o
                          THEN [rootOpen EXCEPT !.path = n]
                          ELSE rootOpen
           /\ events' = IF watching
                        THEN Append(events, [kind |-> "Rename", old |-> o, new |-> n])
                        ELSE events
    /\ envSteps' = envSteps - 1
    /\ dirty' = (dirty \/ syncKind # None)
    /\ UNCHANGED mirror
    /\ UNCHANGED <<rootPc, rootResult, rootDir, syncKind, walkStack, rootLocked,
                   watching, elapsed, r2n, n2r, nodeVars, nodeLooped, hsTrace, idle, sinceHb, xfer>>
    /\ UNCHANGED <<daemonVars, wireVars>>

\* The watcher reports that its event stream has a gap.
WatchRescan ==
    /\ rootResult = "running"
    /\ watching
    /\ envSteps > 0
    /\ events' = Append(events, [kind |-> "Rescan"])
    /\ envSteps' = envSteps - 1
    /\ UNCHANGED mirror
    /\ UNCHANGED <<rootVars, rootFiles, r2n, n2r, nodeVars, histVars>>
    /\ UNCHANGED <<daemonVars, wireVars>>

\* More than 20 s pass while the root polls.
Advance ==
    /\ rootPc = "poll"
    /\ ~HeartbeatDue(elapsed)
    /\ elapsed' = HeartbeatSecs + 1
    /\ sinceHb' = HeartbeatSecs + 1
    /\ UNCHANGED <<rootPc, rootResult, rootDir, syncKind, walkStack, rootOpen,
                   rootLocked, watching, envVars, r2n, n2r, nodeVars, nodeLooped,
                   hsTrace, xfer, dirty, idle>>
    /\ UNCHANGED <<daemonVars, wireVars>>


\* ------------------------------------------------------------ node session
\* A process_node that returns Ok(()) where it is to return the error.
NodeExitOk(result) ==
    /\ nodePc' = "exit"
    /\ nodeResult' = "Ok"

\* process_node returns an error.  The socket is dropped with it.
NodeExit(result) ==
    /\ nodePc' = "exit"
    /\ nodeResult' = result

\* process_node: connect and send the Handshake.
NodeConnect ==
    /\ nodePc = "connect"
    /\ n2r' = Append(n2r, HandshakePkt(nodeModule))
    /\ nodePc' = "hs_wait"
    /\ UNCHANGED <<rootVars, envVars, r2n, nodeResult, nodeModule, nodePending,
                   nodeRet, nodeTarget, nodeSize, nodeBuf, nodeFiles, nodeDirs,
                   histVars>>
    /\ UNCHANGED <<daemonVars, wireVars>>

\* process_node: the status that answers the Handshake.  On NotFound the node
\* starts close(); on Ok it creates its target directory and enters the loop.
NodeHandshakeReply ==
    /\ nodePc = "hs_wait"
    /\ r2n # <<>>
    /\ r2n' = Tail(r2n)
    /\ LET status == Head(r2n).kind
       IN  IF status = "NotFound"
           THEN /\ n2r' = Append(n2r, Packet("Close"))
                /\ nodePc' = "close_wait"
                /\ nodePending' = "InvalidInput"
                /\ UNCHANGED <<nodeResult, nodeDirs, nodeLooped>>
           ELSE IF status # "Ok"
           THEN /\ NodeExit("InvalidData")
                /\ UNCHANGED <<n2r, nodePending, nodeDirs, nodeLooped>>
           ELSE /\ nodeDirs' = nodeDirs \cup {Into} \cup Ancestors(Into)
                /\ nodePc' = "loop"
                /\ nodeLooped' = TRUE
                /\ UNCHANGED <<n2r, nodeResult, nodePending>>
    /\ UNCHANGED <<rootVars, envVars, nodeModule, nodeRet, nodeTarget, nodeSize,
                   nodeBuf, nodeFiles, hsTrace, idle, sinceHb, xfer, dirty>>
    /\ UNCHANGED <<daemonVars, wireVars>>

\* receive_file: the file is on disk already when the hash of its content is
\* the hash of the header.
AlreadyOnDisk(files, file_path, hash) ==
    file_path \in DOMAIN files /\ hash_file(files[file_path]) = hash

\* History: the node's answer to the FileHeader of a full sync, and whether
\* its copy was byte-identical to the content the root hashed.
XferReply(rel, ret, reply, file_path) ==
    IF ret # "sync" \/ rel \notin DOMAIN xfer THEN xfer
    ELSE [xfer EXCEPT ![rel].reply = reply,
                      ![rel].same = (file_path \in DOMAIN nodeFiles
                                     /\ nodeFiles[file_path] = xfer[rel].content)]

\* receive_file up to expect_file: the Skip / Ok decision, the parent
\* directories, the target opened with truncate and create.
ReceiveFile(header, ret) ==
    LET file_path == Resolve(PathJoin(Into, header.path))
    IN  IF file_path \in nodeDirs
        THEN \* hash_file reads a directory: the read fails
             /\ NodeExit("Io")
             /\ UNCHANGED <<n2r, nodeRet, nodeTarget, nodeFiles, nodeDirs, xfer>>
        ELSE IF AlreadyOnDisk(nodeFiles, file_path, header.hash)
        THEN /\ n2r' = Append(n2r, Packet("Skip"))
             /\ xfer' = XferReply(header.path, ret, "Skip", file_path)
             /\ nodePc' = ret
             /\ UNCHANGED <<nodeResult, nodeRet, nodeTarget, nodeFiles, nodeDirs>>
        ELSE /\ n2r' = Append(n2r, Packet("Ok"))
             /\ xfer' = XferReply(header.path, ret, "Ok", file_path)
             /\ IF Ancestors(file_path) \cap DOMAIN nodeFiles # {}
                THEN \* a parent is a regular file: create_dir_all or open fails
                     /\ NodeExit("Io")
                     /\ UNCHANGED <<nodeRet, nodeTarget, nodeFiles, nodeDirs>>
                ELSE /\ nodeDirs' = nodeDirs \cup Ancestors(file_path)
                     /\ nodeFiles' = PutFile(nodeFiles, file_path, <<>>)
                     /\ nodeTarget' = file_path
                     /\ nodeRet' = ret
                     /\ nodePc' = "expect_file"
                     /\ UNCHANGED nodeResult

\* A removal that takes whatever is at the path, a directory with its files
\* included.
NodeRemoveTree(files, path) ==
    LET p == Resolve(PathJoin(Into, path))
    IN  [q \in { f \in DOMAIN files : ~IsPrefix(p, f) } |-> files[q]]

\* fs::remove_file behind path.exists() && path.is_file().
NodeRemove(files, path) ==
    LET p == Resolve(PathJoin(Into, path))
    IN  IF p \in DOMAIN files THEN DelFile(files, p) ELSE files

\* The files after the Remove arm: remove_file may fail (permissions), which is
\* logged and leaves the file.
RemoveOutcomes(files, path) == {NodeRemove(files, path), files}

\* fs::rename(old, new) succeeds.
CanRename(files, dirs, o, n) ==
    /\ Parent(n) \in dirs
    /\ \/ o \in DOMAIN files /\ n \notin dirs
       \/ /\ o \in dirs
          /\ Len(o) > 1
          /\ ~IsPrefix(o, n)
          /\ n \notin DOMAIN files
          /\ ~\E q \in DOMAIN files \cup dirs : IsPrefix(n, q) /\ Len(q) > Len(n)

Rebase(q, o, n) == IF IsPrefix(o, q) THEN n \o StripPrefix(o, q) ELSE q

\* A rename that leaves the old file where it was.
NodeRenameCopies(files, dirs, old, new) ==
    LET o == Resolve(PathJoin(Into, old))
        n == Resolve(PathJoin(Into, new))
    IN  IF ~CanRename(files, dirs, o, n) \/ o \notin DOMAIN files THEN files
        ELSE PutFile(files, n, files[o])

\* The files after fs::rename(dir.join(old), dir.join(new)), unchanged when it
\* fails.
NodeRenameFiles(files, dirs, old, new) ==
    LET o == Resolve(PathJoin(Into, old))
        n == Resolve(PathJoin(Into, new))
    IN  IF ~CanRename(files, dirs, o, n) THEN files
        ELSE LET kept == { q \in DOMAIN files : ~IsPrefix(o, q) /\ q # n }
                 moved == { q \in DOMAIN files : IsPrefix(o, q) }
             IN  [q \in kept \cup { Rebase(m, o, n) : m \in moved } |->
                    IF q \in kept THEN files[q]
                    ELSE files[CHOOSE m \in moved : Rebase(m, o, n) = q]]

\* The directories after that rename.
NodeRenameDirs(files, dirs, old, new) ==
    LET o == Resolve(PathJoin(Into, old))
        n == Resolve(PathJoin(Into, new))
    IN  IF ~CanRename(files, dirs, o, n) THEN dirs
        ELSE { Rebase(d, o, n) : d \in dirs }

\* The event loop of process_node, one iteration.
NodeLoop ==
    /\ nodePc = "loop"
    /\ r2n # <<>>
    /\ r2n' = Tail(r2n)
    /\ LET pkt == Head(r2n)
           next == pkt.kind
       IN  IF next = "Heartbeat"
           THEN /\ n2r' = Append(n2r, Packet("Ok"))
                /\ UNCHANGED <<nodePc, nodeResult, nodePending, nodeRet, nodeTarget,
                               nodeFiles, nodeDirs, xfer>>
           ELSE IF next = "BeginSync"
           THEN /\ n2r' = Append(n2r, Packet("Ok"))
                /\ nodePc' = "sync"
                /\ UNCHANGED <<nodeResult, nodePending, nodeRet, nodeTarget,
                               nodeFiles, nodeDirs, xfer>>
           ELSE IF next = "FileHeader"
           THEN /\ ReceiveFile(pkt, "loop")
                /\ UNCHANGED nodePending
           ELSE IF next = "Remove"
           THEN /\ n2r' = Append(n2r, Packet("Ok"))
                /\ nodeFiles' \in RemoveOutcomes(nodeFiles, pkt.path)
                /\ UNCHANGED <<nodePc, nodeResult, nodePending, nodeRet, nodeTarget,
                               nodeDirs, xfer>>
           ELSE IF next = "Rename"
           THEN /\ n2r' = Append(n2r, Packet("Ok"))
                /\ nodeFiles' = NodeRenameFiles(nodeFiles, nodeDirs, pkt.old, pkt.new)
                /\ nodeDirs' = NodeRenameDirs(nodeFiles, nodeDirs, pkt.old, pkt.new)
                /\ UNCHANGED <<nodePc, nodeResult, nodePending, nodeRet, nodeTarget,
                               xfer>>
           ELSE \* politely deny that: close(), then InvalidData
                /\ n2r' = Append(n2r, Packet("Close"))
                /\ nodePc' = "close_wait"
                /\ nodePending' = "InvalidData"
                /\ UNCHANGED <<nodeResult, nodeRet, nodeTarget, nodeFiles, nodeDirs,
                               xfer>>
    /\ UNCHANGED <<rootVars, envVars, nodeModule, nodeSize, nodeBuf, nodeLooped,
                   hsTrace, idle, sinceHb, dirty>>
    /\ UNCHANGED <<daemonVars, wireVars>>

\* receive_sync, one iteration.
NodeSync ==
    /\ nodePc = "sync"
    /\ r2n # <<>>
    /\ r2n' = Tail(r2n)
    /\ LET pkt == Head(r2n)
           next == pkt.kind
       IN  IF next = "EndSync"
           THEN /\ n2r' = Append(n2r, Packet("Ok"))
                /\ nodePc' = "loop"
                /\ UNCHANGED <<nodeResult, nodeRet, nodeTarget, nodeFiles, nodeDirs,
                               xfer>>
           ELSE IF next # "FileHeader"
           THEN /\ NodeExit("InvalidData")
                /\ UNCHANGED <<n2r, nodeRet, nodeTarget, nodeFiles, nodeDirs, xfer>>
           ELSE ReceiveFile(pkt, "sync")
    /\ UNCHANGED <<rootVars, envVars, nodeModule, nodePending, nodeSize, nodeBuf,
                   nodeLooped, hsTrace, idle, sinceHb, dirty>>
    /\ UNCHANGED <<daemonVars, wireVars>>

\* expect_file: the kind byte and the size, and the buffer of the first read.
NodeExpectFile ==
    /\ nodePc = "expect_file"
    /\ r2n # <<>>
    /\ r2n' = Tail(r2n)
    /\ IF Head(r2n).kind # "File"
       THEN /\ NodeExit("InvalidData")
            /\ UNCHANGED <<nodeSize, nodeBuf>>
       ELSE /\ nodeSize' = Head(r2n).size
            /\ nodeBuf' = Truncate(Zeros(BufSize), Min(Head(r2n).size, BufSize))
            /\ nodePc' = "recv_read"
            /\ UNCHANGED nodeResult
    /\ UNCHANGED <<rootVars, envVars, n2r, nodeModule, nodePending, nodeRet,
                   nodeTarget, nodeFiles, nodeDirs, histVars>>
    /\ UNCHANGED <<daemonVars, wireVars>>

\* What one iteration of the loop of expect_file appends to the file after a
\* read of `read` bytes into buf: the first to_read bytes of the buffer.
Written(buf, to_read, read) == SubSeq(buf, 1, to_read)

\* The buffer after a read that returned the bytes got.
ReadInto(buf, got) == got \o SubSeq(buf, Len(got) + 1, Len(buf))

\* expect_file: one read of the loop returns.  Its buffer holds to_read bytes;
\* the read returns 0 for an empty buffer and at the end of a closed stream,
\* which ends the loop, and else some of the bytes that have arrived.
\* receive_file then sends Ok.
NodeRecvRead ==
    /\ nodePc = "recv_read"
    /\ LET to_read == Len(nodeBuf)
       IN  IF to_read = 0 \/ (r2n = <<>> /\ rootPc = "exit")
           THEN /\ n2r' = Append(n2r, Packet("Ok"))
                /\ nodePc' = nodeRet
                /\ nodeTarget' = NoPath
                /\ UNCHANGED <<r2n, nodeSize, nodeBuf, nodeFiles>>
           ELSE /\ r2n # <<>>
                /\ Head(r2n).kind = "Bytes"
                /\ \E read \in 1..Min(to_read, Len(Head(r2n).data)) :
                      LET data == Head(r2n).data
                          buf == ReadInto(nodeBuf, SubSeq(data, 1, read))
                          size == nodeSize - read
                      IN  /\ r2n' = IF read = Len(data) THEN Tail(r2n)
                                    ELSE <<[kind |-> "Bytes",
                                            data |-> SubSeq(data, read + 1, Len(data))]>>
                                         \o Tail(r2n)
                          /\ nodeSize' = size
                          /\ nodeFiles' = [nodeFiles EXCEPT ![nodeTarget] =
                                              @ \o Written(buf, to_read, read)]
                          /\ nodeBuf' = Truncate(buf, Min(size, BufSize))
                /\ UNCHANGED <<n2r, nodePc, nodeTarget>>
    /\ UNCHANGED <<rootVars, envVars, nodeResult, nodeModule, nodePending, nodeRet,
                   nodeDirs, histVars>>
    /\ UNCHANGED <<daemonVars, wireVars>>

\* close(): expect::<Close>, then process_node returns its error.
NodeCloseReply ==
    /\ nodePc = "close_wait"
    /\ r2n # <<>>
    /\ r2n' = Tail(r2n)
    /\ IF Head(r2n).kind = "Close"
       THEN NodeExit(nodePending)
       ELSE NodeExit("InvalidData")
    /\ UNCHANGED <<rootVars, envVars, n2r, nodeModule, nodePending, nodeRet,
                   nodeTarget, nodeSize, nodeBuf, nodeFiles, nodeDirs, histVars>>
    /\ UNCHANGED <<daemonVars, wireVars>>

\* A read of the node finds the connection closed by the root: read_u8 fails
\* with UnexpectedEof.
NodePeerClosed ==
    /\ nodePc \in {"hs_wait", "loop", "sync", "expect_file", "close_wait"}
    /\ r2n = <<>>
    /\ rootPc = "exit"
    /\ NodeExit("Io")
    /\ UNCHANGED <<rootVars, envVars, r2n, n2r, nodeModule, nodePending, nodeRet,
                   nodeTarget, nodeSize, nodeBuf, nodeFiles, nodeDirs, histVars>>
    /\ UNCHANGED <<daemonVars, wireVars>>

\* ------------------------------------------------------------ specification
\* The files the environment removes and renames, and the writes it makes.
MutPaths == {PathA, PathSubB}

Writes == MutPaths \X Contents

\* The steps of the two sessions.
Session ==
    \/ RootHandshake
    \/ RootBeginAck
    \/ RootWalkEntry
    \/ RootWalkEnd
    \/ RootHeaderReply
    \/ RootFileAck
    \/ RootEndAck
    \/ RootPollEvent
    \/ RootHeartbeat
    \/ RootHeartbeatReply
    \/ RootAck
    \/ NodeConnect
    \/ NodeHandshakeReply
    \/ NodeLoop
    \/ NodeSync
    \/ NodeExpectFile
    \/ NodeRecvRead
    \/ NodeCloseReply

\* The steps of the root's environment.
Environment ==
    \/ \E w \in Writes : FsWrite(w[1], w[2])
    \/ \E rel \in MutPaths : FsRemove(rel)
    \/ \E old \in MutPaths, new \in MutPaths : FsRename(old, new)
    \/ WatchRescan

\* One root session and one node session, time left abstract: more than 20 s
\* may pass whenever the root polls.
Next ==
    \/ Session
    \/ Environment
    \/ Advance
    \/ NodePeerClosed

Spec == Init /\ [][Next]_vars

\* ------------------------------------------- a served module that is a sync
\* The daemon serves module "s", which its own node session mirrors from an
\* upstream root into the same directory.  receive_file of that node session
\* for the file a, in its three steps: the hash of the file on disk, under the
\* lock, which it waits for while the root session holds it, and the reply
\* (Skip ends it); the open with truncate and create, with no lock; the write
\* of the content by expect_file, which the stream delivers in one read.  The
\* watcher of the root session reports what it does to the file.
Mirror ==
    /\ LET file_path == Syncs["s"] \o PathA
           seen(files) == IF rootOpen.path = file_path
                          THEN [rootOpen EXCEPT !.content = files[file_path]]
                          ELSE rootOpen
           reported == IF watching
                       THEN Append(events, [kind |-> "Write", path |-> file_path])
                       ELSE events
       IN  \/ /\ mirror.pc = "idle"
              /\ \E content \in Contents :
                    IF IsFile(rootFiles, file_path)
                    THEN /\ ~(rootLocked /\ rootOpen.path = file_path)
                         /\ mirror' = IF AlreadyOnDisk(rootFiles, file_path, hash_file(content))
                                       THEN [pc |-> "done", todo |-> <<>>]
                                       ELSE [pc |-> "create", todo |-> content]
                    ELSE mirror' = [pc |-> "create", todo |-> content]
              /\ UNCHANGED <<rootFiles, rootOpen, events, dirty>>
           \/ /\ mirror.pc = "create"
              /\ rootFiles' = PutFile(rootFiles, file_path, <<>>)
              /\ rootOpen' = seen(rootFiles')
              /\ events' = reported
              /\ dirty' = (dirty \/ syncKind # None)
              /\ mirror' = [mirror EXCEPT !.pc = "write"]
           \/ /\ mirror.pc = "write"
              /\ IsFile(rootFiles, file_path)
              /\ rootFiles' = PutFile(rootFiles, file_path,
                                      rootFiles[file_path] \o mirror.todo)
              /\ rootOpen' = seen(rootFiles')
              /\ events' = reported
              /\ dirty' = (dirty \/ syncKind # None)
              /\ mirror' = [pc |-> "done", todo |-> <<>>]
    /\ UNCHANGED <<rootPc, rootResult, rootDir, syncKind, walkStack, rootLocked,
                   watching, elapsed, envSteps, r2n, n2r, nodeVars, nodeLooped,
                   hsTrace, xfer, idle, sinceHb>>
    /\ UNCHANGED <<daemonVars, wireVars>>

\* A node with an empty local path connects for the module the daemon
\* mirrors, or for one it does not have, while the daemon's node session is
\* about to receive a.
InitReserve ==
    /\ InitRoot
    /\ ~IsDir(rootFiles, <<"/", "r", ".mirra">>)
    /\ envSteps = MaxEnvSteps
    /\ mirror = [pc |-> "idle", todo |-> <<>>]
    /\ InitNode
    /\ nodeModule # "m"
    /\ nodeFiles = EmptyTree
    /\ InitHist
    /\ r2n = <<>>
    /\ n2r = <<>>
    /\ InitDaemonVars
    /\ InitWireVars

SpecReserve == InitReserve /\ [][Next \/ Mirror]_vars

\* The two sessions with a module directory that no process changes while a
\* full sync walks it, under the scheduling of the runtime: a session that can
\* take a step takes one.
SpecFair ==
    /\ Init
    /\ [][Session \/ (syncKind = None /\ Environment) \/ Advance \/ NodePeerClosed]_vars
    /\ WF_vars(Session)

\* ---------------------------------------------------- the heartbeat, timed
\* Events of the environment in the timed specification.
MaxHbEvents == 1

\* The seconds counted in idle saturate here.
IdleCap == 45

\* One second passes.  The main loop of process_socket spins without sleeping
\* and the exchanges take no time at this scale, so time passes only while
\* the root polls with no event to take and no heartbeat to send.
Tick ==
    /\ rootPc = "poll"
    /\ events = <<>>
    /\ ~HeartbeatDue(elapsed)
    /\ elapsed' = elapsed + 1
    /\ idle' = Min(idle + 1, IdleCap)
    /\ sinceHb' = sinceHb + 1
    /\ UNCHANGED <<rootPc, rootResult, rootDir, syncKind, walkStack, rootOpen,
                   rootLocked, watching, envVars, r2n, n2r, nodeVars, nodeLooped,
                   hsTrace, xfer, dirty>>
    /\ UNCHANGED <<daemonVars, wireVars>>

\* The timed specification starts with one tree on the root and an empty
\* local path on the node, which asks for the module of one file or for a
\* module the root does not serve.
InitHb ==
    /\ InitRoot
    /\ ~IsDir(rootFiles, <<"/", "r", ".mirra">>)
    /\ envSteps = MaxHbEvents
    /\ mirror = [pc |-> "off", todo |-> <<>>]
    /\ InitNode
    /\ nodeModule # "m"
    /\ nodeFiles = EmptyTree
    /\ InitHist
    /\ r2n = <<>>
    /\ n2r = <<>>
    /\ InitDaemonVars
    /\ InitWireVars

NextHb ==
    \/ Session
    \/ Environment
    \/ Tick

SpecHb == InitHb /\ [][NextHb]_vars

\* ------------------------------------------- the node with an arbitrary peer
\* Packets the peer sends in the specification of the node alone.
MaxPeerSends == 4

\* A file outside the node's local path.
PathOutside == <<"/", "e">>

\* Relative paths the peer puts into its packets.
PeerPaths == {PathA, PathMirraK, <<"..">>, <<"..", "e">>, PathOutside}

PeerRenames == {<<PathA, <<"..", "e">>>>, <<<<"..", "e">>, PathA>>, <<PathA, PathMirraK>>}

\* What the peer may send in one go: a packet, or a File with its content.
PeerSends ==
    { <<Packet(k)>> : k \in {"Ok", "NotFound", "Close", "Heartbeat", "BeginSync", "EndSync"} }
        \cup { <<FileHeaderPkt(path, hash_file(Content2), sign(hash_file(Content2)))>> :
                  path \in PeerPaths }
        \cup { <<RemovePkt(path)>> : path \in PeerPaths }
        \cup { <<RenamePkt(r[1], r[2])>> : r \in PeerRenames }
        \cup { FileFrames(Content2) }

\* The peer, any program at the address of the node's sync entry, sends.
PeerSend ==
    /\ rootPc = "peer"
    /\ envSteps > 0
    /\ r2n = <<>>
    /\ \E frames \in PeerSends : r2n' = frames
    /\ envSteps' = envSteps - 1
    /\ UNCHANGED <<rootVars, events, rootFiles, mirror, n2r, nodeVars, histVars>>
    /\ UNCHANGED <<daemonVars, wireVars>>

\* The peer reads what the node sent.
PeerRecv ==
    /\ rootPc = "peer"
    /\ n2r # <<>>
    /\ n2r' = Tail(n2r)
    /\ UNCHANGED <<rootVars, envVars, r2n, nodeVars, histVars>>
    /\ UNCHANGED <<daemonVars, wireVars>>

\* The peer closes the connection.
PeerClose ==
    /\ rootPc = "peer"
    /\ rootPc' = "exit"
    /\ UNCHANGED <<rootResult, rootDir, syncKind, walkStack, rootOpen, rootLocked,
                   watching, elapsed, envVars, r2n, n2r, nodeVars, histVars>>
    /\ UNCHANGED <<daemonVars, wireVars>>

NodeTreeAdv == (<<"/", "n", "a">> :> Content1) @@ (PathOutside :> Content2)

InitAdvSession ==
    /\ rootPc = "peer"
    /\ rootResult = "running"
    /\ rootDir = NoPath
    /\ syncKind = None
    /\ walkStack = <<>>
    /\ rootOpen = NoFile
    /\ rootLocked = FALSE
    /\ watching = FALSE
    /\ elapsed = 0
    /\ events = <<>>
    /\ rootFiles = EmptyTree
    /\ envSteps = MaxPeerSends
    /\ mirror = [pc |-> "off", todo |-> <<>>]
    /\ nodePc = "connect"
    /\ nodeResult = "running"
    /\ nodeModule = "m"
    /\ nodePending = None
    /\ nodeRet = None
    /\ nodeTarget = NoPath
    /\ nodeSize = 0
    /\ nodeBuf = <<>>
    /\ nodeFiles = NodeTreeAdv
    /\ nodeDirs = DirsOf(nodeFiles)
    /\ InitHist
    /\ r2n = <<>>
    /\ n2r = <<>>

InitAdv ==
    /\ InitAdvSession
    /\ InitDaemonVars
    /\ InitWireVars

NextAdv ==
    \/ PeerSend
    \/ PeerRecv
    \/ PeerClose
    \/ NodeConnect
    \/ NodeHandshakeReply
    \/ NodeLoop
    \/ NodeSync
    \/ NodeExpectFile
    \/ NodeRecvRead
    \/ NodeCloseReply
    \/ NodePeerClosed

SpecAdv == InitAdv /\ [][NextAdv]_vars


\* ------------------------------------------- the root with an arbitrary peer
\* Events of the environment in the specification of the root alone.
MaxRootAdvEvents == 1

\* Handshakes the peer sends.
MaxPeerHandshakes == 2

\* What the peer at the other end of an accepted connection may send.
PeerReplies ==
    { Packet(k) : k \in {"Ok", "Skip", "Close"} }
        \cup { HandshakePkt(m) : m \in {"m", "s", "nope"} }

\* The root is blocked in a read of the socket.
RootReading ==
    rootPc \in {"hs_read", "begin_wait", "fh_wait", "file_wait", "end_wait",
                "hb_wait", "ack_wait"}

\* The peer, any program that connected to the root, has read what the root
\* sent and sends a packet while the root waits for one.
PeerReply ==
    /\ nodePc = "peer"
    /\ RootReading
    /\ n2r = <<>>
    /\ \E pkt \in PeerReplies :
          /\ pkt.kind = "Handshake" => Len(hsTrace) < MaxPeerHandshakes
          /\ n2r' = <<pkt>>
    /\ r2n' = <<>>
    /\ UNCHANGED <<rootVars, envVars, nodeVars, histVars>>
    /\ UNCHANGED <<daemonVars, wireVars>>

\* The peer closes the connection.
PeerHangup ==
    /\ nodePc = "peer"
    /\ RootReading
    /\ n2r = <<>>
    /\ nodePc' = "exit"
    /\ UNCHANGED <<rootVars, envVars, r2n, n2r, nodeResult, nodeModule, nodePending,
                   nodeRet, nodeTarget, nodeSize, nodeBuf, nodeFiles, nodeDirs,
                   histVars>>
    /\ UNCHANGED <<daemonVars, wireVars>>

InitRootAdv ==
    /\ InitRoot
    /\ envSteps = MaxRootAdvEvents
    /\ mirror = [pc |-> "off", todo |-> <<>>]
    /\ nodePc = "peer"
    /\ nodeResult = "running"
    /\ nodeModule = "m"
    /\ nodePending = None
    /\ nodeRet = None
    /\ nodeTarget = NoPath
    /\ nodeSize = 0
    /\ nodeBuf = <<>>
    /\ nodeFiles = EmptyTree
    /\ nodeDirs = DirsOf(nodeFiles)
    /\ InitHist
    /\ r2n = <<>>
    /\ n2r = <<>>
    /\ InitDaemonVars
    /\ InitWireVars

NextRootAdv ==
    \/ RootHandshake
    \/ RootBeginAck
    \/ RootWalkEntry
    \/ RootWalkEnd
    \/ RootHeaderReply
    \/ RootFileAck
    \/ RootEndAck
    \/ RootPollEvent
    \/ RootHeartbeat
    \/ RootHeartbeatReply
    \/ RootAck
    \/ RootPeerClosed
    \/ Environment
    \/ Advance
    \/ PeerReply
    \/ PeerHangup

SpecRootAdv == InitRootAdv /\ [][NextRootAdv]_vars


\* ------------------------------------------------- the connection, every way
\* One connection in each of its settings: the node with any program in place
\* of the root, the root with any program in place of the node, and the root
\* with the node while the seconds of the main loop are counted.
NextPeers ==
    \/ rootPc \in {"peer", "exit"} /\ nodePc # "peer" /\ NextAdv
    \/ nodePc \in {"peer", "exit"} /\ rootPc # "peer" /\ NextRootAdv
    \/ rootPc # "peer" /\ nodePc # "peer" /\ NextHb

SpecPeers == (InitAdv \/ InitRootAdv \/ InitHb) /\ [][NextPeers]_vars

\* ------------------------------------------------------------------ the daemon
\* main runs root(), web() and node() in parallel.  The connections accepted
\* by root() are served from one module whose directory holds one file; of a
\* root session this specification keeps the steps of sync_file on that file,
\* which it runs in its full sync and again for every event of the watcher.

\* The kinds a peer may answer with.
DaemonReplies == {"Ok", "Skip", "Close", "Handshake"}

\* process_socket returns: the File it holds is dropped, which releases its
\* lock, and the task that root() spawned logs an error at warning.
SessEnd(c, result) ==
    /\ sess' = [sess EXCEPT ![c] = result]
    /\ lockHolder' = IF lockHolder = c THEN None ELSE lockHolder
    /\ logged' = IF result = "Err" THEN logged \cup {c} ELSE logged

\* root(): accept returns a connection and its session is spawned.
Accept(c) ==
    /\ mainPc = "join"
    /\ listener = "accepting"
    /\ sess[c] = "none"
    /\ sess' = [sess EXCEPT ![c] = "open"]
    /\ UNCHANGED <<sessionVars, wireVars, listener, lockHolder, stalled, logged, nodeTask,
                   nodeSup, web, mainPc>>

\* root(): accept returns an error, which ends root().
ListenerFail ==
    /\ mainPc = "join"
    /\ listener = "accepting"
    /\ listener' = "failed"
    /\ UNCHANGED <<sessionVars, wireVars, sess, lockHolder, stalled, logged, nodeTask, nodeSup,
                   web, mainPc>>

\* sync_file: File::open, lock (lock_exclusive blocks while another open file
\* holds the lock), hash_file, send the FileHeader.
SessLock(c) ==
    /\ mainPc = "join"
    /\ sess[c] = "open"
    /\ lockHolder = None
    /\ lockHolder' = c
    /\ sess' = [sess EXCEPT ![c] = "fh_wait"]
    /\ UNCHANGED <<sessionVars, wireVars, listener, stalled, logged, nodeTask, nodeSup, web,
                   mainPc>>

\* sync_file: the kind that answers the FileHeader.  After Ok, send_file and
\* unlock; after Skip or Close sync_file returns Ok and drops the file; after
\* any other kind it returns InvalidData.
SessHeaderReply(c) ==
    /\ mainPc = "join"
    /\ sess[c] = "fh_wait"
    /\ c \notin stalled
    /\ \E next \in DaemonReplies :
          LET todo == SyncFileOnReply(next)
          IN  IF todo = "send"
              THEN /\ sess' = [sess EXCEPT ![c] = "file_wait"]
                   /\ lockHolder' = None
                   /\ UNCHANGED logged
              ELSE IF todo = "return"
              THEN /\ sess' = [sess EXCEPT ![c] = "idle"]
                   /\ lockHolder' = None
                   /\ UNCHANGED logged
              ELSE SessEnd(c, "Err")
    /\ UNCHANGED <<sessionVars, wireVars, listener, stalled, nodeTask, nodeSup, web, mainPc>>

\* sync_file: expect::<Ok> after the File.
SessFileAck(c) ==
    /\ mainPc = "join"
    /\ sess[c] = "file_wait"
    /\ c \notin stalled
    /\ \E next \in DaemonReplies :
          IF next = "Ok"
          THEN /\ sess' = [sess EXCEPT ![c] = "idle"]
               /\ UNCHANGED <<lockHolder, logged>>
          ELSE SessEnd(c, "Err")
    /\ UNCHANGED <<sessionVars, wireVars, listener, stalled, nodeTask, nodeSup, web, mainPc>>

\* The main loop of process_socket takes a Create or Write event for the file.
SessEvent(c) ==
    /\ mainPc = "join"
    /\ sess[c] = "idle"
    /\ sess' = [sess EXCEPT ![c] = "open"]
    /\ UNCHANGED <<sessionVars, wireVars, listener, lockHolder, stalled, logged, nodeTask,
                   nodeSup, web, mainPc>>

\* The peer of a connection stops replying; the connection stays open.
PeerStall(c) ==
    /\ mainPc = "join"
    /\ sess[c] \in {"fh_wait", "file_wait"}
    /\ c \notin stalled
    /\ stalled' = stalled \cup {c}
    /\ UNCHANGED <<sessionVars, wireVars, listener, sess, lockHolder, logged, nodeTask, nodeSup,
                   web, mainPc>>

\* The peer of a connection closes it: the read of the session fails.
PeerGone(c) ==
    /\ mainPc = "join"
    /\ sess[c] \in {"fh_wait", "file_wait"}
    /\ c \notin stalled
    /\ SessEnd(c, "Err")
    /\ UNCHANGED <<sessionVars, wireVars, listener, stalled, nodeTask, nodeSup, web, mainPc>>

\* process_node returns; its loop has no exit but an error.
NodeTaskFail(i) ==
    /\ mainPc = "join"
    /\ nodeTask[i] = "running"
    /\ nodeTask' = [nodeTask EXCEPT ![i] = "Err"]
    /\ UNCHANGED <<sessionVars, wireVars, listener, sess, lockHolder, stalled, logged, nodeSup,
                   web, mainPc>>

\* node(): fut.await?? on the tasks in the order they were spawned.  An error
\* of the awaited task ends node() with that error.
NodeSupAwait ==
    /\ mainPc = "join"
    /\ nodeSup \in DOMAIN SyncNames
    /\ nodeTask[nodeSup] # "running"
    /\ nodeSup' = IF nodeTask[nodeSup] = "Err" THEN 0 ELSE nodeSup + 1
    /\ UNCHANGED <<sessionVars, wireVars, listener, sess, lockHolder, stalled, logged, nodeTask,
                   web, mainPc>>

\* web(): the server ends; web logs the error and returns Ok.
WebEnd ==
    /\ mainPc = "join"
    /\ web = "serving"
    /\ web' = "Ok"
    /\ UNCHANGED <<sessionVars, wireVars, listener, sess, lockHolder, stalled, logged, nodeTask,
                   nodeSup, mainPc>>

\* main: join! returns when root(), web() and node() have all returned; main
\* then returns and the process ends with every task still running.
MainJoin ==
    /\ mainPc = "join"
    /\ listener = "failed"
    /\ web = "Ok"
    /\ nodeSup \notin DOMAIN SyncNames
    /\ mainPc' = "exit"
    /\ UNCHANGED <<sessionVars, wireVars, listener, sess, lockHolder, stalled, logged, nodeTask,
                   nodeSup, web>>

\* The variables of the single connection stay as InitAdv sets them.
InitDaemon == InitAdv

NextDaemon ==
    \/ \E c \in Conns : Accept(c)
    \/ ListenerFail
    \/ \E c \in Conns : SessLock(c)
    \/ \E c \in Conns : SessHeaderReply(c)
    \/ \E c \in Conns : SessFileAck(c)
    \/ \E c \in Conns : SessEvent(c)
    \/ \E c \in Conns : PeerStall(c)
    \/ \E c \in Conns : PeerGone(c)
    \/ \E i \in DOMAIN SyncNames : NodeTaskFail(i)
    \/ NodeSupAwait
    \/ WebEnd
    \/ MainJoin

SpecDaemon == InitDaemon /\ [][NextDaemon]_vars


\* ------------------------------------------------------------ the wire format
\* Strings are the sequences of their UTF-8 bytes.  MaxStrLen bounds the byte
\* length of the strings a packet is built from.
MaxStrLen == 2

\* How often hash_file is called on one open File.
MaxHashCalls == 2

\* enum PacketKind
PacketKind ==
    [Ok |-> 1, Handshake |-> 2, Intent |-> 3, Continue |-> 4, FileHeader |-> 5,
     File |-> 6]

\* The kinds the root and node sessions send or match on.
SessionKinds ==
    {"Ok", "Close", "Handshake", "NotFound", "Heartbeat", "BeginSync", "EndSync",
     "FileHeader", "File", "Remove", "Rename", "Skip"}

\* The number of String fields of the packets declared by generic_packet!:
\* Ok {}, Handshake {name, ip}, FileHeader {path, hash, cert}.
PacketFields == [Ok |-> 0, Handshake |-> 2, FileHeader |-> 3]

\* write_u32 / read_u32: big endian.
U32(n) == <<(n \div 16777216) % 256, (n \div 65536) % 256, (n \div 256) % 256, n % 256>>

FromU32(b) == ((b[1] * 256 + b[2]) * 256 + b[3]) * 256 + b[4]

\* String::from_utf8 accepts exactly the well-formed UTF-8 byte sequences.
IsCont(b) == b \in 128..191

RECURSIVE IsUtf8(_)
IsUtf8(b) ==
    IF b = <<>> THEN TRUE
    ELSE LET n == Len(b)
             Rest(k) == SubSeq(b, k + 1, n)
         IN  IF b[1] <= 127 THEN IsUtf8(Rest(1))
             ELSE IF b[1] \in 194..223
             THEN n >= 2 /\ IsCont(b[2]) /\ IsUtf8(Rest(2))
             ELSE IF b[1] \in 224..239
             THEN /\ n >= 3
                  /\ b[2] \in (IF b[1] = 224 THEN 160..191
                               ELSE IF b[1] = 237 THEN 128..159 ELSE 128..191)
                  /\ IsCont(b[3])
                  /\ IsUtf8(Rest(3))
             ELSE IF b[1] \in 240..244
             THEN /\ n >= 4
                  /\ b[2] \in (IF b[1] = 240 THEN 144..191
                               ELSE IF b[1] = 244 THEN 128..143 ELSE 128..191)
                  /\ IsCont(b[3])
                  /\ IsCont(b[4])
                  /\ IsUtf8(Rest(4))
             ELSE FALSE

\* t.chars().count(): the bytes of t that start a character.
RECURSIVE StringChars(_)
StringChars(t) ==
    IF t = <<>> THEN 0
    ELSE (IF IsCont(t[1]) THEN 0 ELSE 1) + StringChars(Tail(t))

\* t.len() as u32: the length in bytes, which the cast keeps below 2^32.
StringLen(t) == Len(t)

\* WriteAny<String>: the u32 length, then the bytes.  The strings written here
\* are far shorter than a socket's send buffer, so write() takes all of t.
WriteString(t) == U32(StringLen(t)) \o t

\* ReadAny<String>: read_u32, read_exact of that many bytes, from_utf8.
\* rest is what is left unread; both reads fail with UnexpectedEof at EOF.
ReadString(bytes) ==
    IF Len(bytes) < 4
    THEN [err |-> "UnexpectedEof", value |-> <<>>, rest |-> <<>>]
    ELSE LET size == FromU32(SubSeq(bytes, 1, 4))
             body == SubSeq(bytes, 5, Len(bytes))
         IN  IF Len(body) < size
             THEN [err |-> "UnexpectedEof", value |-> <<>>, rest |-> <<>>]
             ELSE LET buf == SubSeq(body, 1, size)
                      rest == SubSeq(body, size + 1, Len(body))
                  IN  IF IsUtf8(buf)
                      THEN [err |-> None, value |-> buf, rest |-> rest]
                      ELSE [err |-> "InvalidData", value |-> <<>>, rest |-> rest]

\* WriteAny<Handshake>, WriteAny<FileHeader>, WriteAny<Ok>: the fields in the
\* order of their declaration.
RECURSIVE WriteFields(_)
WriteFields(fields) ==
    IF fields = <<>> THEN <<>>
    ELSE WriteString(Head(fields)) \o WriteFields(Tail(fields))

\* ReadAny<Handshake>, ReadAny<FileHeader>, ReadAny<Ok>: the fields in the
\* order of their declaration; the first error is returned.
RECURSIVE ReadFields(_, _)
ReadFields(n, bytes) ==
    IF n = 0 THEN [err |-> None, fields |-> <<>>, rest |-> bytes]
    ELSE LET s == ReadString(bytes)
         IN  IF s.err # None
             THEN [err |-> s.err, fields |-> <<>>, rest |-> s.rest]
             ELSE LET r == ReadFields(n - 1, s.rest)
                  IN  [err |-> r.err,
                       fields |-> IF r.err = None THEN <<s.value>> \o r.fields
                                  ELSE <<>>,
                       rest |-> r.rest]

\* Client::send: T::KIND as u8, then write_any.
SendBytes(type, fields) == <<PacketKind[type]>> \o WriteFields(fields)

\* FromPrimitive::from_u8
FromU8(t) ==
    IF \E k \in DOMAIN PacketKind : PacketKind[k] = t
    THEN CHOOSE k \in DOMAIN PacketKind : PacketKind[k] = t
    ELSE None

\* Client::read_packet_kind
ReadPacketKind(bytes) ==
    IF bytes = <<>>
    THEN [err |-> "UnexpectedEof", kind |-> None, rest |-> <<>>]
    ELSE IF FromU8(bytes[1]) = None
    THEN [err |-> "InvalidData", kind |-> None, rest |-> Tail(bytes)]
    ELSE [err |-> None, kind |-> FromU8(bytes[1]), rest |-> Tail(bytes)]

\* Client::expect: whether the body is read.
KindAny(id, kind) == TRUE

KindMatches(id, kind) == id = kind

\* Client::expect::<T>
Expect(type, bytes) ==
    LET k == ReadPacketKind(bytes)
    IN  IF k.err # None
        THEN [err |-> k.err, fields |-> <<>>, rest |-> k.rest]
        ELSE IF KindMatches(k.kind, type)
        THEN ReadFields(PacketFields[type], k.rest)
        ELSE [err |-> "InvalidData", fields |-> <<>>, rest |-> k.rest]

\* hash_file: the digest of what read() returns from the cursor to EOF.
HashRead(content, pos) == hash_file(SubSeq(content, pos + 1, Len(content)))

\* hash_file: where the cursor is when it returns.
SeekNone(end) == end

SeekStart(end) == 0

\* A send_file that writes the length with write_u32.
SendFileBytesU32(content, pos) ==
    <<PacketKind["File"]>> \o U32(Len(content))
        \o SubSeq(content, pos + 1, Len(content))

\* Client::send_file: the File kind, the u64 length from the metadata (big
\* endian; its high four bytes are 0 for every length here), then what read()
\* returns from the cursor to EOF.
SendFileBytes(content, pos) ==
    <<PacketKind["File"]>> \o <<0, 0, 0, 0>> \o U32(Len(content))
        \o SubSeq(content, pos + 1, Len(content))

\* The strings packets are built from: the well-formed UTF-8 sequences of at
\* most MaxStrLen bytes over 'a' and the two bytes of U+00E9.
Strs ==
    LET StrBytes == {97, 195, 169}
    IN  { s \in UNION { [1..k -> StrBytes] : k \in 0..MaxStrLen } : IsUtf8(s) }

\* The byte strings a peer may frame as a string: a lead byte without its
\* continuation, a stray continuation byte and a byte no character holds.
RawStrs == Strs \cup {<<195>>, <<169, 97>>, <<255>>}

\* What the sending end is given: a packet to send, the code and the framed
\* byte strings a peer writes instead, or a File to hash and send.
WireInputs ==
    LET RawCodes == {0, 1, 2, 5, 7, 255}
        FileContents == Contents \cup {<<>>}
    IN  UNION { { [how |-> "send", type |-> t, code |-> PacketKind[t], fields |-> f] :
                    f \in [1..PacketFields[t] -> Strs] } : t \in DOMAIN PacketFields }
        \cup
        UNION { { [how |-> "raw", type |-> None, code |-> c, fields |-> f] :
                    c \in RawCodes, f \in [1..n -> RawStrs] } : n \in 0..3 }
        \cup
        { [how |-> "file", type |-> "File", code |-> PacketKind["File"],
           fields |-> <<c>>] : c \in FileContents }

\* What a peer writes for a raw input: the code, then each field behind its
\* u32 length.
RECURSIVE RawBody(_)
RawBody(fields) ==
    IF fields = <<>> THEN <<>>
    ELSE U32(Len(Head(fields))) \o Head(fields) \o RawBody(Tail(fields))

\* Client::send of the packet drawn.
Send ==
    /\ winput.how = "send"
    /\ sendPc = "start"
    /\ wire' = wire \o SendBytes(winput.type, winput.fields)
    /\ sendPc' = "done"
    /\ UNCHANGED <<winput, fpos, digests, recvPc, recvKind, last>>
    /\ UNCHANGED <<sessionVars, daemonVars>>

\* The peer writes bytes of its own.
Inject ==
    /\ winput.how = "raw"
    /\ sendPc = "start"
    /\ wire' = wire \o <<winput.code>> \o RawBody(winput.fields)
    /\ sendPc' = "done"
    /\ UNCHANGED <<winput, fpos, digests, recvPc, recvKind, last>>
    /\ UNCHANGED <<sessionVars, daemonVars>>

\* hash_file on the File that File::open returned.
HashFile ==
    /\ winput.how = "file"
    /\ sendPc = "start"
    /\ Len(digests) < MaxHashCalls
    /\ digests' = Append(digests, HashRead(winput.fields[1], fpos))
    /\ fpos' = SeekStart(Len(winput.fields[1]))
    /\ UNCHANGED <<winput, wire, sendPc, recvPc, recvKind, last>>
    /\ UNCHANGED <<sessionVars, daemonVars>>

\* sync_file: send_file on the File it has hashed.
SendFile ==
    /\ winput.how = "file"
    /\ sendPc = "start"
    /\ digests # <<>>
    /\ wire' = wire \o SendFileBytes(winput.fields[1], fpos)
    /\ fpos' = Len(winput.fields[1])
    /\ sendPc' = "done"
    /\ UNCHANGED <<winput, digests, recvPc, recvKind, last>>
    /\ UNCHANGED <<sessionVars, daemonVars>>

\* The reading end calls read_packet_kind; an error is returned with `?`.
RecvKind ==
    /\ sendPc = "done"
    /\ recvPc = "idle"
    /\ LET k == ReadPacketKind(wire)
       IN  /\ wire' = k.rest
           /\ recvKind' = k.kind
           /\ recvPc' = IF k.err = None THEN "kind" ELSE "exit"
           /\ last' = [op |-> "read_packet_kind", type |-> None, before |-> wire,
                       fields |-> <<>>, err |-> k.err]
    /\ UNCHANGED <<winput, sendPc, fpos, digests>>
    /\ UNCHANGED <<sessionVars, daemonVars>>

\* The reading end calls expect_unchecked for the kind it has read.
RecvUnchecked ==
    /\ recvPc = "kind"
    /\ recvKind \in DOMAIN PacketFields
    /\ LET r == ReadFields(PacketFields[recvKind], wire)
       IN  /\ wire' = r.rest
           /\ recvPc' = IF r.err = None THEN "done" ELSE "exit"
           /\ last' = [op |-> "expect_unchecked", type |-> recvKind, before |-> wire,
                       fields |-> r.fields, err |-> r.err]
    /\ UNCHANGED <<winput, sendPc, fpos, digests, recvKind>>
    /\ UNCHANGED <<sessionVars, daemonVars>>

\* The reading end calls expect::<T>.
RecvExpect ==
    /\ sendPc = "done"
    /\ recvPc = "idle"
    /\ \E type \in DOMAIN PacketFields :
          LET r == Expect(type, wire)
          IN  /\ wire' = r.rest
              /\ recvPc' = IF r.err = None THEN "done" ELSE "exit"
              /\ last' = [op |-> "expect", type |-> type, before |-> wire,
                          fields |-> r.fields, err |-> r.err]
    /\ UNCHANGED <<winput, sendPc, fpos, digests, recvKind>>
    /\ UNCHANGED <<sessionVars, daemonVars>>

\* The reading end calls expect_file: the kind byte, the u64 size, then reads
\* of at most min(size, 0x1000) bytes until size bytes are consumed or the
\* stream has ended.  A size whose high four bytes are not 0 is more than any
\* stream here holds.
RecvFile ==
    /\ sendPc = "done"
    /\ recvPc = "idle"
    /\ LET id == wire[1]
           high == SubSeq(wire, 2, 5)
           size == FromU32(SubSeq(wire, 6, 9))
           body == SubSeq(wire, 10, Len(wire))
           read == IF high = <<0, 0, 0, 0>> THEN Min(size, Len(body)) ELSE Len(body)
           err == IF wire = <<>> THEN "UnexpectedEof"
                  ELSE IF id # PacketKind["File"] THEN "InvalidData"
                  ELSE IF Len(wire) < 9 THEN "UnexpectedEof"
                  ELSE None
       IN  /\ wire' = IF wire = <<>> THEN wire
                      ELSE IF id # PacketKind["File"] THEN Tail(wire)
                      ELSE IF Len(wire) < 9 THEN <<>>
                      ELSE SubSeq(body, read + 1, Len(body))
           /\ recvPc' = IF err = None THEN "done" ELSE "exit"
           /\ last' = [op |-> "expect_file", type |-> "File", before |-> wire,
                       fields |-> IF err = None THEN <<SubSeq(body, 1, read)>> ELSE <<>>,
                       err |-> err]
    /\ UNCHANGED <<winput, sendPc, fpos, digests, recvKind>>
    /\ UNCHANGED <<sessionVars, daemonVars>>

\* The sessions and the daemon stay as InitAdv sets them.
InitWire ==
    /\ InitAdvSession
    /\ InitDaemonVars
    /\ winput \in WireInputs
    /\ wire = <<>>
    /\ sendPc = "start"
    /\ fpos = 0
    /\ digests = <<>>
    /\ recvPc = "idle"
    /\ recvKind = None
    /\ last = NoCall

NextWire ==
    \/ Send
    \/ Inject
    \/ HashFile
    \/ SendFile
    \/ RecvKind
    \/ RecvUnchecked
    \/ RecvExpect
    \/ RecvFile

SpecWire == InitWire /\ [][NextWire]_vars


\* ------------------------------------------------------------------ claims
\* The module tree of the session and the node's copy, by relative path.
RootTree == Subtree(rootFiles, rootDir)

NodeTree == Subtree(nodeFiles, Into)

\* The node has replied Ok to the EndSync of the initial full sync and the
\* root is about to read it.
InitialSyncAcked ==
    /\ rootPc = "end_wait"
    /\ syncKind = "initial"
    /\ r2n = <<>>
    /\ n2r = <<Packet("Ok")>>

\* C1: once the node has replied Ok to the EndSync of the initial full sync,
\* the module directory not having changed during the sync, every file of the
\* module directory is on the node at the same relative path with the same
\* bytes.
C1_FullSyncCopies ==
    (InitialSyncAcked /\ ~dirty) =>
        \A f \in DOMAIN RootTree : f \in DOMAIN NodeTree /\ NodeTree[f] = RootTree[f]

\* Both sessions are connected and idle, every event has been processed and
\* nothing is in flight.
Quiescent ==
    /\ rootResult = "running"
    /\ nodeResult = "running"
    /\ rootPc = "poll"
    /\ nodePc = "loop"
    /\ events = <<>>
    /\ r2n = <<>>
    /\ n2r = <<>>

\* C2: when the mutations of the module directory have stopped and their
\* events have been processed, the node's subtree equals the root's in file
\* set and content.
C2_Converged == Quiescent => NodeTree = RootTree

\* C3: the root answers each Handshake with exactly one packet, Ok for a
\* module it serves and NotFound for one it does not.
C3_OneHandshakeReply ==
    \A i \in DOMAIN hsTrace :
        hsTrace[i].replies = IF ModuleFound(hsTrace[i].module)
                             THEN <<"Ok">> ELSE <<"NotFound">>

\* C4: a node that asked for a module the root does not serve ends with
\* InvalidInput without having entered its event loop, and the root session
\* ends cleanly.
C4_NotFoundEndsInvalidInput ==
    (~ModuleFound(nodeModule) /\ nodePc = "exit") =>
        /\ nodeResult = "InvalidInput"
        /\ ~nodeLooped
        /\ rootResult = "Ok"

\* The root has read the node's answer to the FileHeader of rel.
HeaderAnswered(rel) == ~(rootPc = "fh_wait" /\ rootOpen.rel = rel)

\* C5: in a full sync each path gets one FileHeader; the node answers Skip
\* exactly when its copy is byte-identical to the content the root hashed,
\* and then no File is sent for the path; after an Ok exactly one File is.
C5_SkipLiveness ==
    \A rel \in DOMAIN xfer :
        LET x == xfer[rel]
        IN  /\ x.hdrs = 1
            /\ x.reply = None => x.files = 0
            /\ x.reply = "Skip" => (x.same /\ x.files = 0)
            /\ x.reply = "Ok" => (~x.same /\ x.files <= 1)
            /\ (x.reply = "Ok" /\ HeaderAnswered(rel) /\ rootResult = "running")
                  => x.files = 1

\* A full sync is over in which one path was skipped and another transferred.
C5_Witness ==
    /\ rootPc = "poll"
    /\ \E rel \in DOMAIN xfer : xfer[rel].reply = "Skip" /\ xfer[rel].files = 0
    /\ \E rel \in DOMAIN xfer : xfer[rel].reply = "Ok" /\ xfer[rel].files = 1

HasMirra(path) == \E i \in DOMAIN path : path[i] = ".mirra"

\* The relative paths a packet carries.
PathsOf(pkt) ==
    IF pkt.kind \in {"FileHeader", "Remove"} THEN {pkt.path}
    ELSE IF pkt.kind = "Rename" THEN {pkt.old, pkt.new}
    ELSE {}

\* C6: the tree walker enters no .mirra directory and the root sends no
\* FileHeader, Remove or Rename whose relative path has a .mirra component.
C6_NoMirraSent ==
    /\ \A i \in DOMAIN walkStack : ~HasMirra(walkStack[i].dir)
    /\ \A i \in DOMAIN r2n : \A path \in PathsOf(r2n[i]) : ~HasMirra(path)

\* C9: the node session creates, overwrites, deletes or renames no file in a
\* .mirra directory under its local path (its tree has none at the start).
C9_NodeLeavesMirra == \A f \in DOMAIN nodeFiles : ~HasMirra(f)

\* The number of frames of the given kinds in a queue.
Count(queue, kinds) == Cardinality({ i \in DOMAIN queue : queue[i].kind \in kinds })

\* C10: at most one FileHeader or File is in flight; a FileHeader is sent
\* only when the node has finished the file before and the root has read
\* every reply; a File is in flight only while the node, having answered its
\* FileHeader with Ok, waits for it, and that Ok has been read.
C10_OneFileInFlight ==
    /\ Count(r2n, {"FileHeader", "File"}) <= 1
    /\ Count(r2n, {"FileHeader"}) = 1 =>
          /\ nodePc \in {"loop", "sync"}
          /\ n2r = <<>>
    /\ Count(r2n, {"File"}) = 1 =>
          /\ nodePc = "expect_file"
          /\ n2r = <<>>
    /\ nodePc \in {"expect_file", "recv_read"} => Count(n2r, {"Skip"}) = 0

\* A File is in flight to a node that answered Ok.
C10_Witness == Count(r2n, {"File"}) = 1 /\ nodePc = "expect_file"


\* C7 (as claimed): in an idle stretch of Phase 3, at every instant later than
\* 20 s after its start a Heartbeat has been sent within the preceding 20 s.
\* A Heartbeat sent in the stretch resets elapsed below idle.
C7_HeartbeatWithin20 ==
    (rootPc \in {"poll", "hb_wait"} /\ idle > HeartbeatSecs) =>
        (elapsed < idle /\ elapsed <= HeartbeatSecs)

\* C7 (amended): in an idle stretch of Phase 3, at every instant later than
\* 21 s after its start a Heartbeat has been sent within the preceding 21 s:
\* the bound is 20 s plus the second in which the root finds that more than
\* 20 s have passed.
C7_HeartbeatWithin21 ==
    (rootPc \in {"poll", "hb_wait"} /\ idle > HeartbeatSecs + 1) =>
        (elapsed < idle /\ elapsed <= HeartbeatSecs + 1)

\* An idle stretch that has lasted for two heartbeats.
C7_Witness ==
    /\ rootPc = "poll"
    /\ idle >= 2 * (HeartbeatSecs + 1)
    /\ elapsed < HeartbeatSecs

\* The files outside the node's local path.
Outside(files) == [f \in { g \in DOMAIN files : ~IsPrefix(Into, g) } |-> files[f]]

\* C8: whatever FileHeader, Remove or Rename the node receives, it creates,
\* truncates, deletes and renames no file outside its local path.
C8_NodeStaysInside == Outside(nodeFiles) = Outside(NodeTreeAdv)

\* The root has read a Handshake for a module it serves: the session is past
\* the handshake.
PastHandshake ==
    hsTrace # <<>> /\ ModuleFound(hsTrace[Len(hsTrace)].module)

\* A canonicalized absolute path: it starts at "/" and has no "." or ".."
\* component.
IsCanonical(p) == p # <<>> /\ p[1] = "/" /\ Resolve(p) = p

\* The state part of C11.
C11_BoundDir ==
    /\ PastHandshake =>
          /\ IsCanonical(rootDir)
          /\ rootDir = Canonicalize(ModulePath(hsTrace[Len(hsTrace)].module))
    /\ ~PastHandshake =>
          /\ rootDir = NoPath
          /\ syncKind = None
          /\ walkStack = <<>>
    /\ (syncKind # None \/ walkStack # <<>> \/ watching) =>
          (PastHandshake /\ rootDir # NoPath)

\* C11: past the handshake the module directory of the session is bound to
\* the canonicalized absolute path of the module of the successful Handshake,
\* no step binds it again, and no full sync runs with the directory unbound.
C11_DirBoundOnce ==
    /\ []C11_BoundDir
    /\ [][rootDir # NoPath => rootDir' = rootDir]_vars

\* A Rescan full sync runs on the directory bound at the handshake.
C11_Witness ==
    /\ syncKind = "rescan"
    /\ rootPc = "walk"
    /\ rootDir = <<"/", "r">>

\* The content bytes of the File being received that are still in the stream.
StreamRest == IF r2n # <<>> /\ Head(r2n).kind = "Bytes" THEN Head(r2n).data ELSE <<>>

\* C12: while expect_file receives the content of a file of a full sync (the
\* module directory unchanged), whatever partial reads the stream delivers,
\* the bytes written to the target are the content bytes consumed so far, in
\* stream order, and the size still to read is what the stream still holds.
C12_RecvFileExact ==
    (nodePc = "recv_read" /\ nodeRet = "sync" /\ ~dirty) =>
        LET rel == StripPrefix(Into, nodeTarget)
        IN  /\ rel \in DOMAIN xfer
            /\ nodeFiles[nodeTarget] \o StreamRest = xfer[rel].content
            /\ nodeSize = Len(StreamRest)

\* The root takes a Close from the connection in this step.
RootReadsClose ==
    /\ n2r # <<>>
    /\ Head(n2r).kind = "Close"
    /\ n2r' = Tail(n2r)

\* C13: when the answer to a FileHeader is Close, the root unlocks the file
\* and its session ends cleanly there, in a full sync and in a live update, so
\* that it sends no FileHeader, File, EndSync, Remove, Rename or Heartbeat
\* afterwards.
C13_CloseEndsSession ==
    [][(rootPc = "fh_wait" /\ RootReadsClose) =>
          (rootPc' = "exit" /\ rootResult' = "Ok" /\ ~rootLocked')]_vars

\* C14: in whatever state the root reads a Close, it answers with one Close.
C14_CloseAnswered ==
    [][RootReadsClose =>
          (r2n' = Append(r2n, Packet("Close")))]_vars

\* The node takes a packet of this kind in its event loop in this step.
NodeTakes(kind) ==
    /\ nodePc = "loop"
    /\ r2n # <<>>
    /\ Head(r2n).kind = kind
    /\ r2n' = Tail(r2n)

\* The node has replied Ok and reads the next message: the session goes on.
NodeGoesOn ==
    /\ n2r' = Append(n2r, Packet("Ok"))
    /\ nodePc' = "loop"
    /\ nodeResult' = "running"

\* C15: on a Remove the node replies Ok and goes on reading; the target, when
\* it is a regular file, is removed or, the deletion failing, left as it is;
\* a directory or a missing target is left untouched; nothing else changes.
C15_NodeRemove ==
    [][NodeTakes("Remove") =>
          LET p == Resolve(PathJoin(Into, Head(r2n).path))
          IN  /\ NodeGoesOn
              /\ nodeDirs' = nodeDirs
              /\ IF p \in DOMAIN nodeFiles
                 THEN nodeFiles' \in {DelFile(nodeFiles, p), nodeFiles}
                 ELSE nodeFiles' = nodeFiles]_vars

\* Every file the node had has been removed and the node reads on.
C15_Witness ==
    /\ nodePc = "loop"
    /\ nodeResult = "running"
    /\ nodeFiles = EmptyTree
    /\ n2r # <<>>
    /\ n2r[Len(n2r)].kind = "Ok"

\* This step moved the regular file o to n and touched no other file.
Renamed(o, n) ==
    /\ o \in DOMAIN nodeFiles
    /\ DOMAIN nodeFiles' = (DOMAIN nodeFiles \ {o}) \cup {n}
    /\ nodeFiles'[n] = nodeFiles[o]
    /\ \A q \in DOMAIN nodeFiles \ {o, n} : nodeFiles'[q] = nodeFiles[q]

\* C16: on a Rename the node replies Ok and goes on reading; either the rename
\* succeeded, and the node has new with the former content of old and no old,
\* or the node's tree is as it was.
C16_NodeRename ==
    [][NodeTakes("Rename") =>
          LET o == Resolve(PathJoin(Into, Head(r2n).old))
              n == Resolve(PathJoin(Into, Head(r2n).new))
          IN  /\ NodeGoesOn
              /\ \/ Renamed(o, n)
                 \/ nodeFiles' = nodeFiles /\ nodeDirs' = nodeDirs]_vars

\* A rename has moved the node's file a to the place of another file.
C16_Witness ==
    /\ nodePc = "loop"
    /\ nodeResult = "running"
    /\ <<"/", "n", "a">> \notin DOMAIN nodeFiles
    /\ PathOutside \in DOMAIN nodeFiles
    /\ nodeFiles[PathOutside] = Content1

\* The root takes a Create or Write event from the watcher in this step.
RootTakesWrite ==
    /\ rootPc = "poll"
    /\ events # <<>>
    /\ Head(events).kind \in {"Create", "Write"}
    /\ events' = Tail(events)

\* The node has read every content byte of a live update and is about to
\* reply Ok; the root awaits that Ok and no later event is pending.
LiveUpdateReceived ==
    /\ rootPc = "file_wait"
    /\ nodePc = "recv_read"
    /\ nodeRet = "loop"
    /\ nodeSize = 0
    /\ events = <<>>

\* The state part of C17: the node holds the path of a completed live update
\* with the root's content.
C17_NodeHoldsContent ==
    LiveUpdateReceived =>
        LET path == rootDir \o StripPrefix(Into, nodeTarget)
        IN  /\ IsFile(rootFiles, path)
            /\ nodeFiles[nodeTarget] = rootFiles[path]

\* C17: in Phase 3 every Create or Write event makes the root run the per-file
\* transfer for its path, and when the exchange completes the node holds the
\* path with the root's content.
C17_LiveUpdate ==
    /\ []C17_NodeHoldsContent
    /\ [][RootTakesWrite =>
             /\ rootPc' = "fh_wait"
             /\ r2n' # <<>>
             /\ r2n'[Len(r2n')].kind = "FileHeader"
             /\ r2n'[Len(r2n')].path = StripPrefix(rootDir, Head(events).path)]_vars

\* C18: node() returns only when every node session has ended, and every
\* session that ended with an error, root or node, has been logged once its
\* supervisor is done with it.
C18_SupervisorIsolation ==
    /\ \A c \in Conns : sess[c] = "Err" => c \in logged
    /\ nodeSup \notin DOMAIN SyncNames =>
          \A i \in DOMAIN SyncNames :
              /\ nodeTask[i] # "running"
              /\ nodeTask[i] = "Err" => SyncNames[i] \in logged

\* C19: no root session waits for the lock on a file that the session of
\* another connection holds while its peer has stopped replying.
C19_ConnectionsIndependent ==
    \A a \in Conns, b \in Conns :
        ~(/\ a # b
          /\ sess[b] = "open"
          /\ lockHolder = a
          /\ a \in stalled)

\* A Rescan full sync runs and the Rescan is all the environment has done:
\* the module directory is as the initial full sync found it, and every
\* FileHeader of this sync repeats the one the node applied then.
SecondApplication ==
    /\ syncKind = "rescan"
    /\ envSteps = MaxEnvSteps - 1

\* C20: a FileHeader applied a second time, right after the first with its
\* File, is answered with Skip, is followed by no File and modifies nothing:
\* a Rescan full sync of an unchanged module directory transfers no File.
C20_IdempotentReplace ==
    SecondApplication =>
        \A rel \in DOMAIN xfer :
            /\ xfer[rel].reply \in {None, "Skip"}
            /\ xfer[rel].files = 0

\* C21: the codec round trip.  For every packet built from strings of bounded
\* length (the empty string and multi-byte characters included), reading the
\* bytes that send wrote, with expect::<T> or with read_packet_kind and
\* expect_unchecked, returns the fields that were sent, each in its declared
\* position, and leaves no byte of them unread.
C21_RoundTrip ==
    (/\ winput.how = "send"
     /\ last.op \in {"expect", "expect_unchecked"}
     /\ last.type = winput.type)
        => /\ last.err = None
           /\ last.fields = winput.fields
           /\ Len(last.fields) = PacketFields[winput.type]
           /\ wire = <<>>

C21_Witness ==
    /\ winput.how = "send"
    /\ winput.type = "FileHeader"
    /\ winput.fields = << <<195, 169>>, <<>>, <<97>> >>
    /\ last.op = "expect"
    /\ last.type = "FileHeader"
    /\ last.fields = winput.fields
    /\ wire = <<>>

\* C22: hash idempotence.  Every call of hash_file on an open file returns the
\* digest of the file's whole content, so consecutive calls return the same
\* digest; after each call the cursor is at offset 0, so the send_file that
\* follows streams the content from its first byte.
C22_HashIdempotent ==
    winput.how = "file" =>
        /\ \A i \in DOMAIN digests : digests[i] = hash_file(winput.fields[1])
        /\ (digests # <<>> /\ sendPc = "start") => fpos = 0
        /\ (sendPc = "done" /\ recvPc = "idle")
              => SubSeq(wire, 10, Len(wire)) = winput.fields[1]

C22_Witness ==
    /\ winput.how = "file"
    /\ winput.fields[1] = Content1
    /\ Len(digests) = 2
    /\ digests[1] = digests[2]
    /\ sendPc = "done"
    /\ recvPc = "idle"
    /\ SubSeq(wire, 10, Len(wire)) = Content1

\* The codes the wire table gives the kinds.
WireTable ==
    [Ok |-> 1, Close |-> 2, Handshake |-> 3, NotFound |-> 4, Heartbeat |-> 5,
     BeginSync |-> 6, EndSync |-> 7, FileHeader |-> 8, File |-> 9, Remove |-> 10,
     Rename |-> 11, Skip |-> 12]

\* C23: the kind tags.  Every kind the sessions use is defined, no two kinds
\* share a code, and the first byte of every packet or file sent is the code
\* the wire table gives its kind (Ok 0x1, Close 0x2, Handshake 0x3, NotFound
\* 0x4, Heartbeat 0x5, BeginSync 0x6, EndSync 0x7, FileHeader 0x8, File 0x9,
\* Remove 0xA, Rename 0xB, Skip 0xC).
C23_KindTable ==
    (winput.how \in {"send", "file"} /\ sendPc = "done" /\ recvPc = "idle")
        => /\ wire[1] = WireTable[winput.type]
           /\ SessionKinds \subseteq DOMAIN PacketKind
           /\ \A j, k \in DOMAIN PacketKind :
                 PacketKind[j] = PacketKind[k] => j = k

\* The codes that are defined kinds.
DefinedCodes == { PacketKind[k] : k \in DOMAIN PacketKind }

\* C24: protocol violations surface as InvalidData and end the session.
\* read_packet_kind (alone or inside expect) on a byte that is no defined kind
\* returns InvalidData; expect::<T> on a defined kind other than T's returns
\* InvalidData after reading the kind byte only; a packet of the awaited kind
\* with a string field that is not valid UTF-8 makes expect and
\* expect_unchecked return InvalidData.  In each case the caller returns.
C24_ViolationsAreInvalidData ==
    /\ (/\ last.op \in {"read_packet_kind", "expect"}
        /\ last.before # <<>>
        /\ last.before[1] \notin DefinedCodes)
          => last.err = "InvalidData" /\ recvPc = "exit"
    /\ (/\ last.op = "expect"
        /\ last.before # <<>>
        /\ last.before[1] \in DefinedCodes
        /\ last.before[1] # PacketKind[last.type])
          => /\ last.err = "InvalidData"
             /\ recvPc = "exit"
             /\ Len(last.before) - Len(wire) = 1
    /\ (/\ winput.how = "raw"
        /\ last.op \in {"expect", "expect_unchecked"}
        /\ winput.code = PacketKind[last.type]
        /\ Len(winput.fields) >= PacketFields[last.type]
        /\ \E i \in 1..PacketFields[last.type] : winput.fields[i] \notin Strs)
          => last.err = "InvalidData" /\ recvPc = "exit"

C24_Witness ==
    /\ winput.how = "raw"
    /\ winput.code = PacketKind["FileHeader"]
    /\ winput.fields = << <<97>>, <<255>>, <<>> >>
    /\ last.op = "expect_unchecked"
    /\ last.type = "FileHeader"
    /\ last.err = "InvalidData"
    /\ recvPc = "exit"

\* What the root sends in a step (a peer in its place is not the root).
SentNow ==
    IF rootPc # "peer" /\ Len(r2n') >= Len(r2n) /\ SubSeq(r2n', 1, Len(r2n)) = r2n
    THEN SubSeq(r2n', Len(r2n) + 1, Len(r2n'))
    ELSE <<>>

SendsNow(kind) == \E i \in DOMAIN SentNow : SentNow[i].kind = kind

NodeReads == r2n # <<>> /\ r2n' = Tail(r2n)

\* C25: the framing of a full sync.  The root sends BeginSync only outside a
\* full sync and then waits for Ok; from BeginSync to the Ok that answers
\* EndSync it sends nothing but the FileHeaders and Files of per-file
\* exchanges and EndSync (no Remove, Rename, Heartbeat or nested BeginSync),
\* and the full sync is over only when Ok answers EndSync.  The node answers
\* BeginSync with Ok and enters the subloop; there, reading a kind other than
\* FileHeader or EndSync makes it return InvalidData, and it is back in its
\* event loop only after reading EndSync, which it answers with Ok.
C25_FullSyncFraming ==
    [][/\ SendsNow("BeginSync")
            => /\ syncKind = None
               /\ syncKind' # None
               /\ rootPc' = "begin_wait"
               /\ SentNow[Len(SentNow)].kind = "BeginSync"
       /\ (rootPc = "begin_wait" /\ rootPc' # "begin_wait")
            => \/ rootPc' = "exit"
               \/ n2r # <<>> /\ Head(n2r).kind = "Ok" /\ rootPc' = "walk"
       /\ syncKind # None
            => \A i \in DOMAIN SentNow :
                  SentNow[i].kind \in {"FileHeader", "File", "Bytes", "EndSync"}
       /\ SendsNow("EndSync") => rootPc = "walk" /\ rootPc' = "end_wait"
       /\ (syncKind # None /\ syncKind' = None)
            => rootPc = "end_wait" /\ n2r # <<>> /\ Head(n2r).kind = "Ok"
       /\ (nodePc = "loop" /\ NodeReads /\ Head(r2n).kind = "BeginSync")
            => nodePc' = "sync" /\ n2r' = Append(n2r, Packet("Ok"))
       /\ (nodePc = "sync" /\ NodeReads
             /\ Head(r2n).kind \notin {"FileHeader", "EndSync"})
            => nodePc' = "exit" /\ nodeResult' = "InvalidData"
       /\ (nodePc # "loop" /\ nodeRet # "loop" /\ nodePc' = "loop")
            => \/ nodePc = "hs_wait"
               \/ /\ nodePc = "sync"
                  /\ NodeReads
                  /\ Head(r2n).kind = "EndSync"
                  /\ n2r' = Append(n2r, Packet("Ok"))
      ]_vars

\* A full sync with a file sent has reached its EndSync.
C25_Witness ==
    /\ nodePc = "peer"
    /\ rootPc = "end_wait"
    /\ r2n # <<>>
    /\ r2n[Len(r2n)].kind = "EndSync"
    /\ \E rel \in DOMAIN xfer : xfer[rel].files = 1

\* The root reads a packet in its handshake loop.
HandshakeRead == nodePc = "peer" /\ rootPc = "hs_read" /\ n2r # <<>> /\ n2r' = Tail(n2r)

\* C26: the root's handshake loop.  A Handshake naming a module the root does
\* not serve leaves the root in the handshake loop, however many came before;
\* a Handshake naming a served module (a share or a sync) then binds the
\* directory and starts the full sync; a Close is answered with Close and
\* process_socket returns Ok; any other kind makes it return InvalidData; and
\* the root sends BeginSync only when the last Handshake read named a served
\* module.
C26_HandshakeLoop ==
    [][/\ (HandshakeRead /\ Head(n2r).kind = "Handshake")
            => IF Head(n2r).module \in DOMAIN Shares \cup DOMAIN Syncs
               THEN /\ rootPc' = "begin_wait"
                    /\ rootDir' # NoPath
                    /\ SendsNow("BeginSync")
                    /\ rootResult' = "running"
               ELSE /\ rootPc' = "hs_read"
                    /\ rootResult' = "running"
                    /\ ~SendsNow("BeginSync")
       /\ (HandshakeRead /\ Head(n2r).kind = "Close")
            => /\ KindsOf(SentNow) = <<"Close">>
               /\ rootPc' = "exit"
               /\ rootResult' = "Ok"
       /\ (HandshakeRead /\ Head(n2r).kind \notin {"Handshake", "Close"})
            => /\ SentNow = <<>>
               /\ rootPc' = "exit"
               /\ rootResult' = "InvalidData"
       /\ SendsNow("BeginSync")
            => /\ hsTrace' # <<>>
               /\ hsTrace'[Len(hsTrace')].module \in DOMAIN Shares \cup DOMAIN Syncs
               /\ rootPc # "hs_read" => Len(hsTrace') = Len(hsTrace)
      ]_vars

\* After a missed Handshake, a Handshake for a module this mirra itself syncs
\* has started the full sync.
C26_Witness ==
    /\ nodePc = "peer"
    /\ rootPc = "begin_wait"
    /\ Len(hsTrace) = 2
    /\ hsTrace[1].module = "nope"
    /\ hsTrace[2].module = "s"
    /\ r2n # <<>>
    /\ r2n[Len(r2n)].kind = "BeginSync"

\* The root reads the reply to its Heartbeat.
HeartbeatReplyRead == rootPc = "hb_wait" /\ n2r # <<>> /\ n2r' = Tail(n2r)

\* C27: the heartbeat exchange.  The root sends a Heartbeat only from its main
\* loop when no event is pending and more than 20 s have passed since
\* last_heartbeat, which it advances with every Heartbeat sent: more than 20 s
\* lie between two Heartbeats (and between entering the main loop and the
\* first).  It then reads exactly one reply: after Ok the main loop goes on,
\* after Close it sends Close and returns Ok, after any other kind it returns
\* InvalidData.
C27_HeartbeatExchange ==
    [][/\ SendsNow("Heartbeat")
            => /\ rootPc = "poll"
               /\ events = <<>>
               /\ elapsed > HeartbeatSecs
               /\ sinceHb > 20
               /\ KindsOf(SentNow) = <<"Heartbeat">>
               /\ elapsed' = 0
               /\ rootPc' = "hb_wait"
       /\ (rootPc = "hb_wait" /\ rootPc' # "hb_wait")
            => \/ HeartbeatReplyRead
               \/ rootPc' = "exit" /\ rootResult' \notin {"Ok", "InvalidData"}
       /\ (HeartbeatReplyRead /\ Head(n2r).kind = "Ok")
            => rootPc' = "poll" /\ rootResult' = "running" /\ SentNow = <<>>
       /\ (HeartbeatReplyRead /\ Head(n2r).kind = "Close")
            => /\ KindsOf(SentNow) = <<"Close">>
               /\ rootPc' = "exit"
               /\ rootResult' = "Ok"
       /\ (HeartbeatReplyRead /\ Head(n2r).kind \notin {"Ok", "Close"})
            => /\ SentNow = <<>>
               /\ rootPc' = "exit"
               /\ rootResult' = "InvalidData"
      ]_vars

\* The peer has answered a Heartbeat with Close and the root has answered that.
C27_Witness ==
    /\ nodePc = "peer"
    /\ rootPc = "exit"
    /\ rootResult = "Ok"
    /\ watching
    /\ sinceHb = 0
    /\ KindsOf(r2n) = <<"Close">>

\* The root takes a Rescan event from the watcher's channel.
RescanTaken ==
    /\ rootPc = "poll"
    /\ events # <<>>
    /\ Head(events).kind = "Rescan"
    /\ events' = Tail(events)

\* C28: a Rescan event in the main loop makes the root send BeginSync and run
\* a full sync of the directory bound by the handshake: no Handshake is sent
\* or read, the bound directory and the watcher stay as they are, the walk
\* starts at the bound directory, and when Ok answers its EndSync every file
\* of an unchanged directory has been offered, the root is back in its main
\* loop and the node is back in its event loop.
C28_Rescan ==
    [][/\ RescanTaken
            => /\ KindsOf(SentNow) = <<"BeginSync">>
               /\ syncKind' = "rescan"
               /\ rootPc' = "begin_wait"
       /\ syncKind' = "rescan"
            => /\ rootDir' = rootDir
               /\ watching /\ watching'
               /\ hsTrace' = hsTrace
               /\ \A i \in DOMAIN n2r' : n2r'[i].kind # "Handshake"
               /\ \A i \in DOMAIN r2n' : r2n'[i].kind \notin {"NotFound", "Handshake"}
       /\ (syncKind = "rescan" /\ rootPc = "begin_wait" /\ rootPc' = "walk")
            => Len(walkStack') = 1 /\ walkStack'[1].dir = rootDir
       /\ (syncKind = "rescan" /\ syncKind' = None)
            => /\ rootPc = "end_wait"
               /\ rootPc' = "poll"
               /\ rootResult' = "running"
               /\ rootDir' = rootDir
               /\ watching'
               /\ nodePc' = "loop"
               /\ nodeResult' = "running"
               /\ ~dirty => DOMAIN RootTree \subseteq DOMAIN xfer
      ]_vars

\* A rescan has offered both files of the directory and the node, back in its
\* event loop, has answered the EndSync.
C28_Witness ==
    /\ syncKind = "rescan"
    /\ rootPc = "end_wait"
    /\ n2r = <<Packet("Ok")>>
    /\ nodePc = "loop"
    /\ watching
    /\ ~dirty
    /\ DOMAIN RootTree = DOMAIN xfer
    /\ Cardinality(DOMAIN xfer) = 2
    /\ \A rel \in DOMAIN xfer : xfer[rel].hdrs = 1 /\ xfer[rel].reply # None

\* The node reads, in its event loop, a kind none of its arms takes.
UnexpectedRead ==
    /\ nodePc = "loop"
    /\ NodeReads
    /\ Head(r2n).kind \notin {"Heartbeat", "BeginSync", "FileHeader", "Remove", "Rename"}

\* C29: a node that reads an unexpected kind in its event loop sends Close and
\* waits for the answer; whatever packet answers, process_node returns
\* InvalidData; from the unexpected packet to its return the node sends
\* nothing else and creates, changes, removes and renames no file.
C29_UnexpectedKind ==
    [][/\ UnexpectedRead
            => /\ n2r' = Append(n2r, [kind |-> "Close"])
               /\ nodePc' = "close_wait"
               /\ nodePending' = "InvalidData"
               /\ nodeResult' = "running"
               /\ nodeFiles' = nodeFiles /\ nodeDirs' = nodeDirs
       /\ (nodePc = "close_wait" /\ nodePending = "InvalidData")
            => /\ nodeFiles' = nodeFiles /\ nodeDirs' = nodeDirs
               /\ nodePending' = nodePending
               /\ nodePc' \in {"close_wait", "exit"}
               /\ Len(n2r') <= Len(n2r)
       /\ (nodePc = "close_wait" /\ nodePending = "InvalidData" /\ NodeReads)
            => nodePc' = "exit" /\ nodeResult' = "InvalidData"
      ]_vars

\* The peer has sent Ok into the event loop and answered the node's Close; the
\* node has returned with the files it had.
C29_Witness ==
    /\ rootPc = "peer"
    /\ nodeLooped
    /\ nodePc = "exit"
    /\ nodePending = "InvalidData"
    /\ nodeResult = "InvalidData"
    /\ nodeFiles = NodeTreeAdv

\* The node reads a FileHeader, in its event loop or in a full sync.
HeaderRead ==
    /\ nodePc \in {"loop", "sync"}
    /\ NodeReads
    /\ Head(r2n).kind = "FileHeader"

\* The file the header read names.
HeaderTarget == Resolve(PathJoin(Into, Head(r2n).path))

\* C30: the receive-file decision.  The node answers a FileHeader with Skip
\* when the target is a regular file whose hash is the header's, and leaves
\* the target as it is; in every other case it answers Ok, creates the missing
\* parent directories and truncates or creates the target (unless that fails),
\* receives the File into it and answers Ok.  No file is changed before the
\* reply to the header is sent.
C30_ReceiveFileDecision ==
    [][/\ HeaderRead
            => IF /\ HeaderTarget \in DOMAIN nodeFiles
                  /\ hash_file(nodeFiles[HeaderTarget]) = Head(r2n).hash
               THEN /\ n2r' = Append(n2r, [kind |-> "Skip"])
                    /\ nodeFiles' = nodeFiles
                    /\ nodeDirs' = nodeDirs
                    /\ nodePc' = nodePc
               ELSE /\ n2r' = Append(n2r, [kind |-> "Ok"])
                    /\ \/ /\ nodePc' = "exit"
                          /\ nodeFiles' = nodeFiles
                       \/ /\ nodePc' = "expect_file"
                          /\ Ancestors(HeaderTarget) \subseteq nodeDirs'
                          /\ nodeFiles' = PutFile(nodeFiles, HeaderTarget, <<>>)
                          /\ nodeTarget' = HeaderTarget
       /\ (nodePc = "recv_read" /\ nodePc' # "recv_read")
            => \/ nodePc' = "exit"
               \/ nodePc' = nodeRet /\ n2r' = Append(n2r, [kind |-> "Ok"])
       /\ (nodeFiles' # nodeFiles /\ nodePc \in {"loop", "sync"} /\ HeaderRead)
            => n2r' = Append(n2r, [kind |-> "Ok"])
      ]_vars

\* The root sends the content of a file in this step.
FileSentNow == SendsNow("File")

\* C31: the root's lock discipline.  The root holds the exclusive lock on the
\* file of a transfer exactly while it waits for the reply to the FileHeader
\* it hashed under the lock; the content is sent with the lock held and the
\* lock is released with it; a transfer ends, after Ok and the File, after
\* Skip, after Close and on an error, with no lock held, so the root holds no
\* lock at the next file, in its main loop or when the session has ended.
C31_LockDiscipline ==
    /\ [](rootPc # "peer" => (rootLocked <=> rootPc = "fh_wait"))
    /\ [](rootLocked => rootOpen # NoFile)
    /\ [][/\ FileSentNow => rootLocked /\ ~rootLocked'
          /\ SendsNow("FileHeader") => ~rootLocked /\ rootLocked'
          /\ (rootLocked /\ rootPc' # "fh_wait") => ~rootLocked'
         ]_vars

\* A transfer has ended with Skip inside a full sync: the walk goes on with no
\* lock held.
C31_Witness ==
    /\ rootPc = "walk"
    /\ ~rootLocked
    /\ \E rel \in DOMAIN xfer : xfer[rel].reply = "Skip" /\ xfer[rel].files = 0

\* The size a File message on the wire declares.
DeclaredSize(bytes) == FromU32(SubSeq(bytes, 6, 9))

NodeReading ==
    \/ nodePc \in {"hs_wait", "loop", "sync", "expect_file", "close_wait"}
    \/ nodePc = "recv_read" /\ nodeBuf # <<>>

\* C33: deadlock freedom of a connected pair.  The root session and the node
\* session are never both blocked in a read with nothing in flight in either
\* direction; a root that is not in a read has returned, polls in its main
\* loop or walks the module directory, where it always has a next step; a
\* node that is not in a read has returned or can take its step.
C33_NoDeadlock ==
    /\ ~(RootReading /\ NodeReading /\ r2n = <<>> /\ n2r = <<>>)
    /\ RootReading \/ rootPc \in {"exit", "poll", "walk"}
    /\ rootPc = "walk" => ENABLED (RootWalkEntry \/ RootWalkEnd)
    /\ NodeReading \/ nodePc \in {"exit", "connect", "recv_read"}
    /\ (nodePc = "recv_read" /\ nodeBuf = <<>>) => ENABLED NodeRecvRead

\* Both sessions are in a read, the root for the Ok that answers its File and
\* the node inside expect_file with one content byte taken and one in flight.
C33_Witness ==
    /\ rootPc = "file_wait"
    /\ nodePc = "recv_read"
    /\ n2r = <<>>
    /\ nodeSize = 1
    /\ KindsOf(r2n) = <<"Bytes">>

\* The messages of the root that the node answers.
Requests == {"BeginSync", "FileHeader", "File", "EndSync", "Heartbeat", "Remove", "Rename"}

\* The reply in flight answers the message the root waits on: the kinds the
\* node answers that message with, and where the node is once it has.
ReplyAgrees ==
    LET kind == Head(n2r).kind
    IN  \/ rootPc = "begin_wait" /\ kind = "Ok" /\ nodePc = "sync"
        \/ rootPc = "fh_wait" /\ kind = "Skip" /\ nodePc \in {"loop", "sync"}
        \/ rootPc = "fh_wait" /\ kind = "Ok" /\ nodePc \in {"expect_file", "exit"}
        \/ rootPc = "file_wait" /\ kind = "Ok" /\ nodePc \in {"loop", "sync"}
        \/ rootPc = "end_wait" /\ kind = "Ok" /\ nodePc = "loop"
        \/ rootPc \in {"hb_wait", "ack_wait"} /\ kind = "Ok" /\ nodePc = "loop"

\* C34: stop and wait.  At most one message of the root awaits its reply: one
\* request to be read by the node, or the File the node is receiving, or one
\* reply to be read by the root.  After its Handshake the node sends one
\* message per step, and only in the step in which it has read a message of
\* the root (a request, or one it answers with the Close of its close()) or
\* has received the last byte of a File, so its replies never outnumber the
\* root's messages.  A reply in flight is the answer to the message the root
\* waits on.
C34_StopAndWait ==
    /\ [](Count(r2n, Requests) + Len(n2r) <= 1)
    /\ [](nodePc = "recv_read" => Count(r2n, Requests) = 0 /\ n2r = <<>>)
    /\ []((n2r # <<>> /\ PastHandshake) => (r2n = <<>> /\ ReplyAgrees))
    /\ [][Len(n2r') > Len(n2r)
            => /\ Len(n2r') = Len(n2r) + 1
               /\ \/ nodePc = "connect"
                  \/ nodePc = "recv_read" /\ nodePc' # "recv_read"
                  \/ NodeReads /\ Head(r2n).kind \in Requests \ {"File"}
                  \/ NodeReads /\ n2r'[Len(n2r')].kind = "Close"
         ]_vars

\* A live update: the node has answered the FileHeader of a written file with
\* Ok and the root has not read that yet.
C34_Witness ==
    /\ rootPc = "fh_wait"
    /\ syncKind = None
    /\ watching
    /\ n2r = <<Packet("Ok")>>
    /\ nodePc = "expect_file"
    /\ r2n = <<>>

\* The files a step of the environment creates, writes, removes or renames.
Mutated ==
    { f \in DOMAIN rootFiles \cup DOMAIN rootFiles' :
         \/ f \notin DOMAIN rootFiles
         \/ f \notin DOMAIN rootFiles'
         \/ rootFiles[f] # rootFiles'[f] }

\* The running full sync is done with the file: its FileHeader was sent and
\* its transfer is over, so the sync transmits nothing more of it.
TransferOver(f) ==
    /\ IsPrefix(rootDir, f)
    /\ StripPrefix(rootDir, f) \in DOMAIN xfer
    /\ rootOpen.rel # StripPrefix(rootDir, f)

\* C35: no mutation is lost between the initial full sync and the start of
\* watching.  A file that is created, written, removed or renamed while the
\* initial full sync runs, after the sync has finished with it, produces a
\* watch event for the main loop to process.
C35_NoLostMutation ==
    [][\A f \in Mutated :
          (syncKind = "initial" /\ TransferOver(f)) => Len(events') > Len(events)
      ]_vars

\* The root takes a Create or Write event whose path is no regular file any
\* more: it has been removed or renamed away, or a directory is there.
RootTakesStale == RootTakesWrite /\ ~IsFile(rootFiles, Head(events).path)

\* C36: a root session in its main loop survives stale events.  Taking a
\* Create or Write event whose path is no longer a regular file, the root
\* sends nothing, stays connected and goes on with its main loop.
C36_StaleEventSurvived ==
    [][RootTakesStale =>
          /\ r2n' = r2n
          /\ rootResult' = "running"
          /\ rootPc' = "poll"
      ]_vars

\* The content bytes the root writes in this step behind the File kind and size.
BytesSentNow ==
    IF Len(SentNow) > 1 /\ SentNow[2].kind = "Bytes" THEN SentNow[2].data ELSE <<>>

\* C37: a served module that the daemon's own node session mirrors.  In every
\* per-file transfer of a full sync, with no other process writing to the
\* module directory, the hash the FileHeader carried is the hash of the bytes
\* the File then holds, and the size the File declares is their number, also
\* when the daemon's node session truncates and rewrites the file meanwhile.
C37_ReservedSync ==
    [][(FileSentNow /\ syncKind # None /\ envSteps = MaxEnvSteps
          /\ mirror.pc # "off" /\ rootOpen.rel \in DOMAIN xfer)
         => /\ hash_file(BytesSentNow) = hash_file(xfer[rootOpen.rel].content)
            /\ SentNow[1].size = Len(BytesSentNow)
      ]_vars

\* The root has sent the EndSync of a full sync during which the module
\* directory did not change.
WalkDone == rootPc = "end_wait" /\ ~dirty

\* C38: enumeration and termination of a full sync.  While the module
\* directory is not changed during the walk, every FileHeader of the full sync
\* is for a regular file of the tree and no file gets a second one; when the
\* root sends EndSync every regular file of the tree has got its FileHeader;
\* and, the node answering, a full sync that has begun does send EndSync.
C38_FullSyncEnumerates ==
    /\ []((syncKind # None /\ ~dirty) =>
            /\ DOMAIN xfer \subseteq DOMAIN RootTree
            /\ \A rel \in DOMAIN xfer : xfer[rel].hdrs = 1)
    /\ [](WalkDone => DOMAIN xfer = DOMAIN RootTree)
    /\ ((syncKind # None /\ ~dirty) ~> (rootPc = "end_wait" \/ dirty))

\* The initial full sync of a tree with a file and a directory holding one has
\* sent EndSync after one FileHeader for each of the two files.
C38_Witness ==
    /\ WalkDone
    /\ syncKind = "initial"
    /\ DOMAIN RootTree = {PathA, PathSubB}
    /\ DOMAIN xfer = {PathA, PathSubB}
    /\ \A rel \in DOMAIN xfer : xfer[rel].hdrs = 1

====
